---- MODULE Spec2Model ----
(***************************************************************************)
(* Verification model of the parkour core of EscapeTheSenator:             *)
(*   - ChunkGenerator / ChunkManager / InfiniteWorld (platform synthesis,  *)
(*     streaming window, checkpoints),                                     *)
(*   - Player (kinematic controller) and the Engine tick that drives it.   *)
(*                                                                         *)
(* Lengths, positions and heights are integers in units of 0.005 world     *)
(* units (200 per world unit); every random length is quantised to 0.01    *)
(* so that "centre +/- length / 2" is exact.  Times are in milliseconds,   *)
(* velocities in 0.001 units per second, player heights in 0.000001 units. *)
(***************************************************************************)
EXTENDS Integers, Sequences, FiniteSets, TLC

\* ------------------------------------------------------------------------
\* Bounds of the model
\* ------------------------------------------------------------------------
\* Math.random() returns k / RandDen, k in 0 .. RandDen - 1
RandDen == 8
\* draw sequences enumerated per generation call in the generator specification
MaxSeed == 23
\* draw sequences enumerated per generation call in the checkpoint specification
MaxWorldSeed == 0
\* cap on ChunkGenerator.chunkCount in the generator specification
MaxGenChunks == 4
\* cap on ChunkGenerator.chunkCount in the checkpoint specification
MaxWorldChunks == 7

\* ------------------------------------------------------------------------
\* Program constants (units of 0.005)
\* ------------------------------------------------------------------------
MIN_EDGE_GAP == 1000
MAX_EDGE_GAP == 1800
OVERLAP_BUFFER == 100
APPROACH_DISTANCE == 1200
WALL_RUN_APPROACH == 1600
CHUNK_INTERVAL == 3
CHECKPOINT_WIDTH == 4000
CHECKPOINT_LENGTH == 2800
CHECKPOINT_HEIGHT == 120
RESPAWN_OFFSET == 100
WALL_THICKNESS == 100
CHUNK_LENGTH == 10000
CHUNKS_AHEAD == 3
CHUNKS_BEHIND == 2
HEIGHT_MAX == 4000
PLATFORM_HEIGHT == 100

PatternType ==
    << "straight", "stepping_stones", "ramp_up", "ramp_down",
       "bounce_jump", "wall_run", "zigzag" >>

NoPattern == "none"

\* ------------------------------------------------------------------------
\* Helpers
\* ------------------------------------------------------------------------
Min2(a, b) == IF a < b THEN a ELSE b
Max2(a, b) == IF a > b THEN a ELSE b
Abs(a) == IF a < 0 THEN -a ELSE a
Even(n) == 2 * (n \div 2)

RECURSIVE SqrtSearch(_, _, _)
SqrtSearch(n, lo, hi) ==
    IF lo >= hi THEN lo
    ELSE LET mid == (lo + hi + 1) \div 2
         IN IF mid * mid <= n THEN SqrtSearch(n, mid, hi)
                              ELSE SqrtSearch(n, lo, mid - 1)

\* Math.sqrt, rounded down to the model's unit
Sqrt(n) == IF n <= 0 THEN 0 ELSE SqrtSearch(n, 0, 46340)

\* The i-th Math.random() numerator of draw sequence seed: sequences
\* 0 .. RandDen-1 are constant, the following ones step by 1, 3, 5, ...
Draw(seed, i) ==
    LET start == seed % RandDen
        group == seed \div RandDen
        stride == IF group = 0 THEN 0 ELSE 2 * group - 1
    IN (start + i * stride) % RandDen

\* ChunkGenerator.randomRange: min + Math.random() * (max - min)
randomRange(min, max, k) == min + ((max - min) * k) \div RandDen

\* randomRange for a length, quantised to 0.01 world units
randomLen(min, max, k) == Even(randomRange(min, max, k))

Plat(kind, x, y, z, w, l, id) ==
    [kind |-> kind, x |-> x, y |-> y, z |-> z, w |-> w, l |-> l, id |-> id]

ZMin(p) == p.z - p.l \div 2
ZMax(p) == p.z + p.l \div 2

\* ------------------------------------------------------------------------
\* ChunkGenerator
\* ------------------------------------------------------------------------
\* checkOverlap(plat1, plat2): buffered bounding boxes intersect
checkOverlap(plat1, plat2) ==
    LET p1MinX == plat1.x - plat1.w \div 2 - OVERLAP_BUFFER
        p1MaxX == plat1.x + plat1.w \div 2 + OVERLAP_BUFFER
        p1MinZ == plat1.z - plat1.l \div 2 - OVERLAP_BUFFER
        p1MaxZ == plat1.z + plat1.l \div 2 + OVERLAP_BUFFER
        p2MinX == plat2.x - plat2.w \div 2 - OVERLAP_BUFFER
        p2MaxX == plat2.x + plat2.w \div 2 + OVERLAP_BUFFER
        p2MinZ == plat2.z - plat2.l \div 2 - OVERLAP_BUFFER
        p2MaxZ == plat2.z + plat2.l \div 2 + OVERLAP_BUFFER
        overlapX == p1MinX < p2MaxX /\ p1MaxX > p2MinX
        overlapZ == p1MinZ < p2MaxZ /\ p1MaxZ > p2MinZ
    IN overlapX /\ overlapZ

\* the gap drawn by getSafeNextZ
SafeGap(k) == randomLen(MIN_EDGE_GAP, MAX_EDGE_GAP, k)

getSafeNextZ(currentZ, lastLength, nextLength, k) ==
    currentZ + lastLength \div 2 + SafeGap(k) + nextLength \div 2

shouldPlaceCheckpoint(count) == count > 0 /\ count % CHUNK_INTERVAL = 0

\* a pattern by one draw, lastPattern not excluded
selectPatternAny(last, k) == PatternType[1 + (k * Len(PatternType)) \div RandDen]

\* selectPattern: a pattern other than lastPattern, by one draw
selectPattern(last, k) ==
    LET available == SelectSeq(PatternType, LAMBDA p : p # last)
    IN available[1 + (k * Len(available)) \div RandDen]

\* generateStraightPattern; cfg = [startZ, length, startHeight, seed, base]
RECURSIVE StraightLoop(_, _, _, _, _)
StraightLoop(cfg, n, currentZ, lastPlatLength, acc) ==
    IF currentZ < cfg.startZ + cfg.length - 2400 - MAX_EDGE_GAP
    THEN LET platLength == randomLen(1600, 2400, Draw(cfg.seed, cfg.base + 3 * n + 1))
             platWidth == randomLen(1000, 1600, Draw(cfg.seed, cfg.base + 3 * n + 2))
             platCenterZ ==
                 IF lastPlatLength = 0
                 THEN currentZ + platLength \div 2
                 ELSE getSafeNextZ(currentZ, lastPlatLength, platLength,
                                   Draw(cfg.seed, cfg.base + 3 * n + 3))
         IN StraightLoop(cfg, n + 1, platCenterZ, platLength,
                Append(acc, Plat("basic", 0, cfg.startHeight, platCenterZ,
                                 platWidth, platLength, 0)))
    ELSE acc

generateStraightPattern(cfg) ==
    [platforms |-> StraightLoop(cfg, 0, cfg.startZ, 0, << >>),
     endHeight |-> cfg.startHeight]

\* generateSteppingStonesPattern
RECURSIVE StonesLoop(_, _, _, _, _, _, _, _)
StonesLoop(cfg, stoneCount, i, currentZ, currentHeight, lastPlatLength, lastX, acc) ==
    IF i < stoneCount /\ currentZ < cfg.startZ + cfg.length - 1400 - MIN_EDGE_GAP
    THEN LET b == cfg.base + 5 * i
             stoneWidth == randomLen(1000, 1400, Draw(cfg.seed, b + 1))
             stoneLength == randomLen(1000, 1400, Draw(cfg.seed, b + 2))
             targetX == (IF i % 2 = 0 THEN 1 ELSE -1)
                            * randomLen(600, 1000, Draw(cfg.seed, b + 3))
             xDistance == Abs(targetX - lastX)
             maxTotalDist == 2000
             maxZDist == Sqrt(maxTotalDist * maxTotalDist - xDistance * xDistance)
             minZGap == (MIN_EDGE_GAP * 7) \div 10
             maxZGap == Min2((MAX_EDGE_GAP * 8) \div 10, maxZDist)
             gap == randomLen(minZGap, Max2(minZGap, maxZGap), Draw(cfg.seed, b + 4))
             platCenterZ ==
                 IF lastPlatLength = 0
                 THEN currentZ + stoneLength \div 2
                 ELSE currentZ + lastPlatLength \div 2 + gap + stoneLength \div 2
             heightChange == randomRange(-100, 200, Draw(cfg.seed, b + 5))
             newHeight == Max2(0, Min2(HEIGHT_MAX, currentHeight + heightChange))
         IN StonesLoop(cfg, stoneCount, i + 1, platCenterZ, newHeight, stoneLength, targetX,
                Append(acc, Plat("basic", targetX, newHeight, platCenterZ,
                                 stoneWidth, stoneLength, 0)))
    ELSE [platforms |-> acc, endHeight |-> currentHeight]

generateSteppingStonesPattern(cfg) ==
    LET minStoneSize == 1000
        avgGap == (MIN_EDGE_GAP + MAX_EDGE_GAP) \div 2
        stoneCount == cfg.length \div (minStoneSize + avgGap)
    IN StonesLoop(cfg, stoneCount, 0, cfg.startZ, cfg.startHeight, 0, 0, << >>)

\* generateRampPattern
generateRampPattern(cfg, goingUp) ==
    LET startPlatLength == 2000
        endPlatLength == 2000
        connectionOverlap == 100
        minRampLength == 2400
        availableLength == cfg.length - startPlatLength - endPlatLength + connectionOverlap * 2
        rampLength == Max2(minRampLength, Min2(3600, Even((availableLength * 6) \div 10)))
        startPlatZ == cfg.startZ + startPlatLength \div 2
        rampStartZ == startPlatZ + startPlatLength \div 2 - connectionOverlap
        rampZ == rampStartZ + rampLength \div 2
        endPlatZ == rampZ + rampLength \div 2 - connectionOverlap + endPlatLength \div 2
        amount == randomRange(600, 1000, Draw(cfg.seed, cfg.base + 1))
        heightChange == IF goingUp THEN amount ELSE -amount
        endHeight == Max2(100, Min2(HEIGHT_MAX, cfg.startHeight + heightChange))
        followUpLength == 1600
        followUpZ == endPlatZ + endPlatLength \div 2 + MIN_EDGE_GAP + followUpLength \div 2
        fixed == << Plat("basic", 0, cfg.startHeight, startPlatZ, 1200, startPlatLength, 0),
                    Plat("ramp", 0, 0, rampZ, 1000, rampLength, 0),
                    Plat("basic", 0, endHeight, endPlatZ, 1200, endPlatLength, 0) >>
    IN [platforms |->
            IF followUpZ < cfg.startZ + cfg.length - followUpLength
            THEN Append(fixed, Plat("basic", 0, endHeight, followUpZ, 1200, followUpLength, 0))
            ELSE fixed,
        endHeight |-> endHeight]

\* generateBouncePattern
generateBouncePattern(cfg) ==
    LET approachPlatLength == 2400
        bouncePadLength == 800
        landingPlatLength == 2000
        endPlatLength == 1600
        approachPlatZ == cfg.startZ + approachPlatLength \div 2
        bouncePadZ == approachPlatZ + approachPlatLength \div 2 + MIN_EDGE_GAP
                          + bouncePadLength \div 2
        bounceDistance == 3000
        landingPlatZ == bouncePadZ + bouncePadLength \div 2 + bounceDistance
                            + landingPlatLength \div 2
        endPlatZ == landingPlatZ + landingPlatLength \div 2 + MIN_EDGE_GAP
                        + endPlatLength \div 2
        landingHeight == cfg.startHeight + 1000
        fixed == << Plat("basic", 0, cfg.startHeight, approachPlatZ, 1200, approachPlatLength, 0),
                    Plat("bounce", 0, cfg.startHeight + 60, bouncePadZ, 800, bouncePadLength, 0),
                    Plat("basic", 0, landingHeight, landingPlatZ, 1600, landingPlatLength, 0) >>
    IN [platforms |->
            IF endPlatZ < cfg.startZ + cfg.length - endPlatLength \div 2
            THEN Append(fixed, Plat("basic", 0, landingHeight, endPlatZ, 1200, endPlatLength, 0))
            ELSE fixed,
        endHeight |-> landingHeight]

\* generateWallRunPattern
generateWallRunPattern(cfg) ==
    LET approachPlatLength == 2400
        wallLength == 3600
        landingPlatLength == 2000
        endPlatLength == 1600
        approachPlatZ == cfg.startZ + approachPlatLength \div 2
        left == 2 * Draw(cfg.seed, cfg.base + 1) > RandDen
        wallX == IF left THEN -600 ELSE 600
        wallZ == approachPlatZ + approachPlatLength \div 2 + WALL_RUN_APPROACH
                     + wallLength \div 2
        landingX == IF left THEN 600 ELSE -600
        landingPlatZ == wallZ + wallLength \div 2 + 400 + landingPlatLength \div 2
        endPlatZ == landingPlatZ + landingPlatLength \div 2 + MIN_EDGE_GAP
                        + endPlatLength \div 2
        fixed == << Plat("basic", 0, cfg.startHeight, approachPlatZ, 1200, approachPlatLength, 0),
                    Plat("wall", wallX, cfg.startHeight, wallZ, WALL_THICKNESS, wallLength, 0),
                    Plat("basic", landingX, cfg.startHeight, landingPlatZ, 1200,
                         landingPlatLength, 0) >>
    IN [platforms |->
            IF endPlatZ < cfg.startZ + cfg.length - endPlatLength \div 2
            THEN Append(fixed, Plat("basic", 0, cfg.startHeight, endPlatZ, 1200, endPlatLength, 0))
            ELSE fixed,
        endHeight |-> cfg.startHeight]

\* generateZigzagPattern
RECURSIVE ZigzagLoop(_, _, _, _, _, _, _)
ZigzagLoop(cfg, z, i, currentZ, lastPlatLength, acc, platLength) ==
    IF i < z.platformCount /\ currentZ < cfg.startZ + cfg.length - platLength - z.minZGap
    THEN LET xOffset == z.direction * (IF i % 2 = 0 THEN z.xSeparation \div 2
                                                    ELSE -(z.xSeparation \div 2))
             gap == randomLen(z.minZGap, z.maxZGap, Draw(cfg.seed, cfg.base + 2 + i))
             platCenterZ ==
                 IF lastPlatLength = 0
                 THEN currentZ + platLength \div 2
                 ELSE currentZ + lastPlatLength \div 2 + gap + platLength \div 2
         IN ZigzagLoop(cfg, z, i + 1, platCenterZ, platLength,
                Append(acc, Plat("basic", xOffset, cfg.startHeight, platCenterZ,
                                 1200, platLength, 0)), platLength)
    ELSE acc

generateZigzagPattern(cfg) ==
    LET platLength == 1600
        direction == IF 2 * Draw(cfg.seed, cfg.base + 1) > RandDen THEN 1 ELSE -1
        xSeparation == 1400
        maxTotalJumpDist == 2200
        maxZDist == Sqrt(maxTotalJumpDist * maxTotalJumpDist - xSeparation * xSeparation)
        minZGap == 800
        maxZGap == Min2(1400, maxZDist)
        avgSpacing == platLength + (minZGap + maxZGap) \div 2
        platformCount == (cfg.length - platLength) \div avgSpacing
        z == [direction |-> direction, xSeparation |-> xSeparation,
              minZGap |-> minZGap, maxZGap |-> maxZGap, platformCount |-> platformCount]
    IN [platforms |-> ZigzagLoop(cfg, z, 0, cfg.startZ, 0, << >>, platLength),
        endHeight |-> cfg.startHeight]

\* generatePatternForChunk: the switch over the selected pattern
generatePatternForChunk(pattern, cfg) ==
    CASE pattern = "straight" -> generateStraightPattern(cfg)
      [] pattern = "stepping_stones" -> generateSteppingStonesPattern(cfg)
      [] pattern = "ramp_up" -> generateRampPattern(cfg, TRUE)
      [] pattern = "ramp_down" -> generateRampPattern(cfg, FALSE)
      [] pattern = "bounce_jump" -> generateBouncePattern(cfg)
      [] pattern = "wall_run" -> generateWallRunPattern(cfg)
      [] pattern = "zigzag" -> generateZigzagPattern(cfg)
      [] OTHER -> generateStraightPattern(cfg)

\* generateChunk on generator state g = [lastPattern, chunkCount, checkpointCount]
\* returns the chunk data and the new generator state; the chunk notes the
\* pattern selected for it and the pattern of the chunk generated before it
generateChunk(g, startZ, length, startHeight, seed, base) ==
    LET count == g.chunkCount + 1
        withCp == shouldPlaceCheckpoint(count)
        checkpointZ == startZ + CHECKPOINT_LENGTH \div 2
        cpId == g.checkpointCount + 1
        cp == Plat("checkpoint", 0, startHeight, checkpointZ,
                   CHECKPOINT_WIDTH, CHECKPOINT_LENGTH, cpId)
        cfg == IF withCp
               THEN [startZ |-> checkpointZ + CHECKPOINT_LENGTH \div 2 + MIN_EDGE_GAP,
                     length |-> length - (CHECKPOINT_LENGTH + MIN_EDGE_GAP),
                     startHeight |-> startHeight, seed |-> seed, base |-> base]
               ELSE [startZ |-> startZ, length |-> length,
                     startHeight |-> startHeight, seed |-> seed, base |-> base]
        Result(pattern, pat) ==
            [chunk |-> [startZ |-> startZ,
                        endZ |-> startZ + length,
                        patStartZ |-> cfg.startZ,
                        pattern |-> pattern,
                        after |-> g.lastPattern,
                        platforms |-> IF withCp THEN << cp >> \o pat.platforms
                                                ELSE pat.platforms,
                        endHeight |-> pat.endHeight],
             newCheckpoints |-> IF withCp THEN << cp >> ELSE << >>,
             gen |-> [lastPattern |-> pattern,
                      chunkCount |-> count,
                      checkpointCount |-> IF withCp THEN cpId ELSE g.checkpointCount]]
        Generate(pattern) == Result(pattern, generatePatternForChunk(pattern, cfg))
    IN Generate(selectPattern(g.lastPattern, Draw(seed, base)))

\* generateStartChunk
generateStartChunk(g) ==
    LET startCheckpointLength == 3000
        startCheckpointWidth == 2400
        easyPlatLength == 2000
        easyPlatWidth == 1400
        startCheckpointZ == 1000
        startCheckpointEndZ == startCheckpointZ + startCheckpointLength \div 2
        easyGap == MIN_EDGE_GAP
        easy1Z == startCheckpointEndZ + easyGap + easyPlatLength \div 2
        easy2Z == easy1Z + easyPlatLength \div 2 + easyGap + easyPlatLength \div 2
        easy3Z == easy2Z + easyPlatLength \div 2 + (easyGap * 12) \div 10
                      + easyPlatLength \div 2
        cpId == g.checkpointCount + 1
        cp == Plat("checkpoint", 0, 0, startCheckpointZ,
                   startCheckpointWidth, startCheckpointLength, cpId)
    IN [chunk |-> [startZ |-> 0,
                   endZ |-> easy3Z + easyPlatLength \div 2 + MIN_EDGE_GAP,
                   patStartZ |-> 0,
                   pattern |-> "start",
                   after |-> g.lastPattern,
                   platforms |-> << cp,
                       Plat("basic", 0, 0, easy1Z, easyPlatWidth, easyPlatLength, 0),
                       Plat("basic", 0, 0, easy2Z, easyPlatWidth, easyPlatLength, 0),
                       Plat("basic", 0, 0, easy3Z, easyPlatWidth, easyPlatLength, 0) >>,
                   endHeight |-> 0],
        newCheckpoints |-> << cp >>,
        gen |-> [g EXCEPT !.checkpointCount = cpId]]

\* ------------------------------------------------------------------------
\* State
\* ------------------------------------------------------------------------
VARIABLES
    generator,               \* ChunkGenerator: lastPattern, chunkCount, checkpointCount
    checkpoints,             \* ChunkGenerator.checkpoints (never cleared by the program)
    chunks,                  \* ChunkManager.chunks
    currentZ,                \* ChunkManager.currentZ
    currentHeight,           \* ChunkManager.currentHeight
    currentRotation,         \* ChunkManager.currentRotation (1/100 degree)
    totalDistance,           \* ChunkManager.totalDistance
    allObstacles,            \* ChunkManager.allObstacles
    isLoaded,                \* Engine.infiniteWorld exists and was built
    activeCheckpoint,        \* InfiniteWorld.activeCheckpoint (checkpoint id, 0 = null)
    lastCheckpointPosition,  \* InfiniteWorld.lastCheckpointPosition
    player,                  \* the Player object (position in 0.000001 units,
                             \*   velocity in 0.001 units/s, timers in ms)
    deathCooldown,           \* Engine.deathCooldown (ms)
    ticks,                   \* number of Engine._update frames run so far
    ev,                      \* what the last step did (observation only)
    gameStateManager,        \* GameStateManager: currentState, previousState, currentMode
    activeWorld,             \* Engine.activeWorld: "world" (sandbox) or "infiniteWorld"
    pointerLocked,           \* InputManager.mouse.locked
    InfiniteWorldClass,      \* Engine.js: the parkour module has been imported
    loading,                 \* setupGameMode calls suspended at the import
    globalEvents,            \* EventBus: the listeners of one event, and what the
                             \*   last step emitted and invoked
    pausedAt                 \* the game as it was when it was last paused, and how
                             \*   far the way back into it has got (observation only)

worldVars ==
    << generator, checkpoints, chunks, currentZ, currentHeight, currentRotation,
       totalDistance, allObstacles, isLoaded, activeCheckpoint, lastCheckpointPosition >>

\* world length (0.005) to player position (0.000001)
ToPos(u) == 5000 * u

NoPosition == [x |-> 0, y |-> 0, z |-> 0, set |-> FALSE]
Vec(x, y, z) == [x |-> x, y |-> y, z |-> z, set |-> TRUE]

\* Engine.setupGameMode: player.setPosition(0, 0.5, 5)
SpawnPosition == Vec(0, ToPos(100), ToPos(1000))

\* CheckpointPlatform constructor: the platform plus its activation state
NewCheckpoint(p) ==
    [id |-> p.id, x |-> p.x, y |-> p.y, z |-> p.z, w |-> p.w, l |-> p.l,
     isActivated |-> FALSE, disposed |-> FALSE]

\* ------------------------------------------------------------------------
\* ChunkManager, as functions of the manager state
\*   m = [generator, checkpoints, chunks, currentZ, currentHeight,
\*        currentRotation, totalDistance, allObstacles]
\* ------------------------------------------------------------------------
\* addChunk
addChunk(m, chunkData) ==
    [m EXCEPT !.allObstacles = @ \o chunkData.platforms,
              !.chunks = Append(@, chunkData)]

\* the curve drawn by generateNextChunk, in 1/100 degree
CurveAmount(seed, base) ==
    LET shouldCurve == 10 * Draw(seed, base) < 3 * RandDen
    IN IF shouldCurve
       THEN ((2 * Draw(seed, base + 1) - RandDen) * 1500) \div RandDen
       ELSE 0

\* generateNextChunk
generateNextChunk(m, seed, base) ==
    LET Place(r) ==
            [addChunk(m, r.chunk) EXCEPT
                !.generator = r.gen,
                !.checkpoints = @ \o [i \in 1 .. Len(r.newCheckpoints) |->
                                          NewCheckpoint(r.newCheckpoints[i])],
                !.currentRotation = @ + CurveAmount(seed, base),
                !.currentZ = r.chunk.endZ,
                !.currentHeight = r.chunk.endHeight]
    IN Place(generateChunk(m.generator, m.currentZ, CHUNK_LENGTH, m.currentHeight,
                           seed, base + 2))

\* init: the start chunk, then CHUNKS_AHEAD generated chunks
RECURSIVE GenerateAhead(_, _, _)
GenerateAhead(m, seed, i) ==
    IF i < CHUNKS_AHEAD
    THEN GenerateAhead(generateNextChunk(m, seed, 32 * i), seed, i + 1)
    ELSE m

init(m, seed) ==
    LET Place(r) ==
            [addChunk(m, r.chunk) EXCEPT
                !.generator = r.gen,
                !.checkpoints = @ \o [i \in 1 .. Len(r.newCheckpoints) |->
                                          NewCheckpoint(r.newCheckpoints[i])],
                !.currentZ = r.chunk.endZ,
                !.currentHeight = r.chunk.endHeight]
    IN GenerateAhead(Place(generateStartChunk(m.generator)), seed, 0)

\* no chunk is disposed
disposeChunksNever(m, gone) == m

\* the chunks in set gone leave the list, their obstacles stay in allObstacles
disposeChunksKeepsObstacles(m, gone) ==
    [m EXCEPT !.chunks = SelectSeq(@, LAMBDA c : \A i \in gone : m.chunks[i] # c)]

\* disposing the chunks in set gone: their obstacles leave allObstacles and
\* their platforms are disposed (a checkpoint stays in generator.checkpoints
\* and keeps its activation flag)
disposeChunks(m, gone) ==
    LET gonePlats == UNION { { m.chunks[i].platforms[j] :
                                 j \in 1 .. Len(m.chunks[i].platforms) } : i \in gone }
        goneIds == { o.id : o \in gonePlats } \ {0}
        keep(c) == \A i \in gone : m.chunks[i] # c
    IN [m EXCEPT !.chunks = SelectSeq(@, keep),
                 !.allObstacles = SelectSeq(@, LAMBDA o : o \notin gonePlats),
                 !.checkpoints = [i \in 1 .. Len(@) |->
                                     IF @[i].id \in goneIds
                                     THEN [@[i] EXCEPT !.disposed = TRUE]
                                     ELSE @[i]]]

\* update(playerZ) that generates two chunks in one call
updateTwice(m, playerZ, seed) ==
    LET distanceAhead == ToPos(m.currentZ) - playerZ
        Behind(m1) ==
            { i \in 1 .. Len(m1.chunks) :
                ToPos(m1.chunks[i].endZ) < playerZ - ToPos(CHUNKS_BEHIND * CHUNK_LENGTH) }
        Dispose(m1) ==
            [disposeChunks(m1, Behind(m1)) EXCEPT !.totalDistance = Max2(@, playerZ)]
    IN Dispose(IF distanceAhead < ToPos(CHUNKS_AHEAD * CHUNK_LENGTH)
               THEN generateNextChunk(generateNextChunk(m, seed, 0), seed, 32)
               ELSE m)

\* a chunk is needed only when less than one chunk length lies ahead
NeedsChunkLate(m, playerZ) == ToPos(m.currentZ) - playerZ < ToPos(CHUNK_LENGTH)

\* update(playerZ)
NeedsChunk(m, playerZ) ==
    LET distanceAhead == ToPos(m.currentZ) - playerZ
    IN distanceAhead < ToPos(CHUNKS_AHEAD * CHUNK_LENGTH)

update(m, playerZ, seed) ==
    LET Behind(m1) ==
            { i \in 1 .. Len(m1.chunks) :
                ToPos(m1.chunks[i].endZ) < playerZ - ToPos(CHUNKS_BEHIND * CHUNK_LENGTH) }
        Dispose(m1) ==
            [disposeChunks(m1, Behind(m1)) EXCEPT !.totalDistance = Max2(@, playerZ)]
    IN Dispose(IF NeedsChunk(m, playerZ) THEN generateNextChunk(m, seed, 0) ELSE m)

\* reset
reset(m, seed) ==
    init([disposeChunks(m, 1 .. Len(m.chunks)) EXCEPT
              !.currentZ = 0, !.currentHeight = 0, !.currentRotation = 0,
              !.totalDistance = 0, !.allObstacles = << >>],
         seed)

\* dispose
dispose(m) == [disposeChunks(m, 1 .. Len(m.chunks)) EXCEPT !.allObstacles = << >>]

\* the manager and its generator as their constructors leave them
NewManager ==
    [generator |-> [lastPattern |-> NoPattern, chunkCount |-> 0, checkpointCount |-> 0],
     checkpoints |-> << >>, chunks |-> << >>, currentZ |-> 0, currentHeight |-> 0,
     currentRotation |-> 0, totalDistance |-> 0, allObstacles |-> << >>]

\* ------------------------------------------------------------------------
\* InfiniteWorld
\* ------------------------------------------------------------------------
\* CheckpointPlatform.getRespawnPosition
getRespawnPosition(cp) ==
    Vec(ToPos(cp.x), ToPos(cp.y + CHECKPOINT_HEIGHT \div 2 + RESPAWN_OFFSET), ToPos(cp.z))

\* activateCheckpoint on w = [checkpoints, activeCheckpoint, lastCheckpointPosition]
activateCheckpoint(w, id) ==
    IF w.activeCheckpoint = id THEN w
    ELSE [checkpoints |->
              [i \in 1 .. Len(w.checkpoints) |->
                  LET cp == w.checkpoints[i]
                  IN IF cp.id = id THEN [cp EXCEPT !.isActivated = TRUE]
                     ELSE IF w.activeCheckpoint # 0 /\ cp.id = w.activeCheckpoint
                          THEN [cp EXCEPT !.isActivated = FALSE]
                          ELSE cp],
          activeCheckpoint |-> id,
          lastCheckpointPosition |->
              getRespawnPosition(w.checkpoints[CHOOSE i \in 1 .. Len(w.checkpoints) :
                                                   w.checkpoints[i].id = id])]

\* the test checkCheckpointCollision applies to one checkpoint
OnCheckpoint(cp, playerPosition) ==
    LET dz == Abs(playerPosition.z - ToPos(cp.z))
        zInRange == dz < ToPos(cp.l \div 2 + 400)
        checkpointTopY == ToPos(cp.y + CHECKPOINT_HEIGHT \div 2)
        heightDiff == playerPosition.y - checkpointTopY
        isOnTop == heightDiff >= -ToPos(200) /\ heightDiff < ToPos(1000)
        dx == Abs(playerPosition.x - ToPos(cp.x))
        isNearX == dx < ToPos(3000)
    IN zInRange /\ isOnTop /\ isNearX

\* checkCheckpointCollision: the first checkpoint of the generator's list
\* that passes the test is activated
checkCheckpointCollision(w, playerPosition) ==
    LET hits == { i \in 1 .. Len(w.checkpoints) : OnCheckpoint(w.checkpoints[i], playerPosition) }
    IN IF hits = {} THEN w
       ELSE LET first == CHOOSE i \in hits : \A j \in hits : i <= j
            IN activateCheckpoint(w, w.checkpoints[first].id)

Manager ==
    [generator |-> generator, checkpoints |-> checkpoints, chunks |-> chunks,
     currentZ |-> currentZ, currentHeight |-> currentHeight,
     currentRotation |-> currentRotation, totalDistance |-> totalDistance,
     allObstacles |-> allObstacles]

\* the manager state m and checkpoint state w become the next state
SetWorld(m, w) ==
    /\ generator' = m.generator
    /\ chunks' = m.chunks
    /\ currentZ' = m.currentZ
    /\ currentHeight' = m.currentHeight
    /\ currentRotation' = m.currentRotation
    /\ totalDistance' = m.totalDistance
    /\ allObstacles' = m.allObstacles
    /\ checkpoints' = w.checkpoints
    /\ activeCheckpoint' = w.activeCheckpoint
    /\ lastCheckpointPosition' = w.lastCheckpointPosition

World(m, active, last) ==
    [checkpoints |-> m.checkpoints, activeCheckpoint |-> active,
     lastCheckpointPosition |-> last]

\* InfiniteWorld.build: chunkManager.init(), then the first checkpoint of the
\* list is force-activated
build(m, active, last, seed) ==
    LET Activate(m1) ==
            [m |-> m1,
             w |-> IF Len(m1.checkpoints) > 0
                   THEN activateCheckpoint(World(m1, active, last), m1.checkpoints[1].id)
                   ELSE World(m1, active, last)]
    IN Activate(init(m, seed))

\* InfiniteWorld.update(deltaTime, playerPosition)
worldUpdate(m, active, last, playerPosition, seed) ==
    LET Collide(m1) ==
            [m |-> m1,
             w |-> checkCheckpointCollision(World(m1, active, last), playerPosition)]
    IN Collide(update(m, playerPosition.z, seed))

\* InfiniteWorld.reset: the checkpoint references are dropped, the manager is reset
worldReset(m, seed) ==
    LET Drop(m1) == [m |-> m1, w |-> World(m1, 0, NoPosition)]
    IN Drop(reset(m, seed))

\* InfiniteWorld.checkDeath
DEATH_Y_THRESHOLD == -4000
checkDeath(playerY) == playerY < ToPos(DEATH_Y_THRESHOLD)

\* ------------------------------------------------------------------------
\* World actions
\* ------------------------------------------------------------------------
InitWorld ==
    /\ generator = [lastPattern |-> NoPattern, chunkCount |-> 0, checkpointCount |-> 0]
    /\ checkpoints = << >>
    /\ chunks = << >>
    /\ currentZ = 0
    /\ currentHeight = 0
    /\ currentRotation = 0
    /\ totalDistance = 0
    /\ allObstacles = << >>
    /\ isLoaded = FALSE
    /\ activeCheckpoint = 0
    /\ lastCheckpointPosition = NoPosition

\* where the player may stand when the world is updated: the spawn point, the
\* top of a checkpoint ever created, the top of the first or last platform of
\* a live chunk
TopOf(p) == [x |-> ToPos(p.x), y |-> ToPos(p.y + PLATFORM_HEIGHT \div 2), z |-> ToPos(p.z)]
CheckpointTop(cp) ==
    [x |-> ToPos(cp.x), y |-> ToPos(cp.y + CHECKPOINT_HEIGHT \div 2), z |-> ToPos(cp.z)]

PlayerPositions ==
    {[x |-> SpawnPosition.x, y |-> SpawnPosition.y, z |-> SpawnPosition.z]}
        \cup { CheckpointTop(checkpoints[i]) : i \in 1 .. Len(checkpoints) }
        \cup { TopOf(chunks[i].platforms[1]) : i \in 1 .. Len(chunks) }
        \cup { TopOf(chunks[i].platforms[Len(chunks[i].platforms)]) : i \in 1 .. Len(chunks) }

\* ------------------------------------------------------------------------
\* Player: constants (0.000001 units, 0.001 units/s, 0.001 units/s^2, ms)
\* ------------------------------------------------------------------------
GRAVITY == -30000
TERMINAL_VELOCITY == -50000
HEIGHT == 1800000
RADIUS == 400000
WALK_SPEED == 8000
RUN_SPEED == 15000
ACCELERATION == 50
DECELERATION == 40
JUMP_FORCE == 12000
JUMP_COOLDOWN == 100
COYOTE_TIME == 150
JUMP_BUFFER == 100
CROUCH_HEIGHT == 1000000
CROUCH_SPEED == 3000
SLIDE_SPEED == 18000
SLIDE_FRICTION == 12000
SLIDE_MIN_SPEED == 3000
SLIDE_COOLDOWN == 500
SLIDE_MIN_SPRINT_TIME == 300
BOUNCE_FORCE == 20000

Vec3(x, y, z) == [x |-> x, y |-> y, z |-> z]

\* Player constructor
NewPlayer ==
    [position |-> Vec3(0, 0, 0),
     velocity |-> Vec3(0, 0, 0),
     isGrounded |-> TRUE,
     isSprinting |-> FALSE,
     isMoving |-> FALSE,
     isCrouching |-> FALSE,
     isSliding |-> FALSE,
     slideTime |-> 0,
     slideCooldown |-> 0,
     currentHeight |-> HEIGHT,
     canJump |-> TRUE,
     jumpCooldown |-> 0,
     coyoteTime |-> 0,
     jumpBufferTime |-> 0,
     wasSprinting |-> FALSE,
     sprintTime |-> 0,
     wasCrouching |-> FALSE,
     wasSliding |-> FALSE,
     isWallRunning |-> FALSE,
     wallRunTime |-> 0,
     wallNormal |-> Vec3(0, 0, 0),
     wallRunCooldown |-> 0,
     calls |-> << >>]

\* Player.setPosition: the position is set, the velocity zeroed
setPosition(p, x, y, z) ==
    [p EXCEPT !.position = Vec3(x, y, z), !.velocity = Vec3(0, 0, 0)]

\* ------------------------------------------------------------------------
\* Player: one update.  in: the keys of the frame (forward, backward, left,
\* right, sprint: held; jumpPressed, crouchPressed: pressed this frame).
\* e: what the raycasts of the frame find (ground: "none", "solid" or
\* "bouncy" surface under the body at height SurfaceY; ceiling; blockedX,
\* blockedZ; wall: a wall normal or NoWall; standClear)
\* ------------------------------------------------------------------------
\* in tenths
AIR_CONTROL == 3
WALL_RUN_MAX_TIME == 5000
WALL_RUN_SPEED == 10000
WALL_RUN_COOLDOWN == 300
WALL_RUN_BOOST == 2000
WALL_RUN_DRIFT == -1000
WALL_JUMP_COOLDOWN == 500
WALL_JUMP_PUSH == 8000
GROUND_TOLERANCE == 100000

\* the obstacle surface the ground rays can meet: the top of the start checkpoint
SurfaceY == ToPos(CHECKPOINT_HEIGHT \div 2)

NoWall == Vec3(0, 0, 0)

\* the camera keeps its initial yaw of 0
getForwardDirection == Vec3(0, 0, -1)
getRightDirection == Vec3(1, 0, 0)

\* a handler or an emitted event is noted in the order it happens
Called(p, name) == [p EXCEPT !.calls = Append(@, name)]

\* InputManager.getMovementInput, in thousandths; a diagonal is normalised
getMovementInput(in) ==
    LET x == (IF in.right THEN 1 ELSE 0) - (IF in.left THEN 1 ELSE 0)
        z == (IF in.backward THEN 1 ELSE 0) - (IF in.forward THEN 1 ELSE 0)
        length == Sqrt(1000000 * (x * x + z * z))
    IN  IF length > 0
        THEN [x |-> (x * 1000000) \div length, z |-> (z * 1000000) \div length]
        ELSE [x |-> 0, z |-> 0]

updateTimers(p, dt) ==
    [p EXCEPT !.jumpCooldown = IF @ > 0 THEN @ - dt ELSE @,
              !.coyoteTime = IF ~p.isGrounded /\ @ > 0 THEN @ - dt ELSE @,
              !.jumpBufferTime = IF @ > 0 THEN @ - dt ELSE @,
              !.wallRunCooldown = IF @ > 0 THEN @ - dt ELSE @,
              !.slideCooldown = IF @ > 0 THEN @ - dt ELSE @]

\* 10000 * e^(x / 1000) by its series, the terms cut to integers
RECURSIVE ExpSum(_, _, _, _)
ExpSum(x, n, term, acc) ==
    IF term = 0 THEN acc
    ELSE ExpSum(x, n + 1, (term * x) \div (1000 * n), acc + term)

\* 1 - Math.exp(-k * deltaTime) in ten-thousandths, k in tenths per second
SmoothFactor(k, dt) ==
    10000 - (100000000 \div ExpSum((k * dt) \div 10, 1, 10000, 0))

\* THREE.MathUtils.lerp with t in ten-thousandths
lerp(a, b, t) == a + ((b - a) * t) \div 10000

handleMovement(p, in, dt) ==
    IF p.isSliding
    THEN [p EXCEPT !.isMoving = TRUE, !.isSprinting = FALSE]
    ELSE LET input == getMovementInput(in)
             isMoving == input.x # 0 \/ input.z # 0
             isSprinting == isMoving /\ in.sprint /\ ~p.isCrouching
             speed == IF p.isCrouching THEN CROUCH_SPEED
                      ELSE IF isSprinting THEN RUN_SPEED ELSE WALK_SPEED
             moveX == getForwardDirection.x * (0 - input.z) + getRightDirection.x * input.x
             moveZ == getForwardDirection.z * (0 - input.z) + getRightDirection.z * input.x
             rate == IF isMoving THEN ACCELERATION ELSE DECELERATION
             k == IF p.isGrounded THEN rate * 10 ELSE rate * AIR_CONTROL
             Move(f) ==
                 [p EXCEPT !.isMoving = isMoving,
                           !.isSprinting = isSprinting,
                           !.sprintTime = IF isSprinting THEN @ + dt ELSE 0,
                           !.velocity.x = lerp(@, (moveX * speed) \div 1000, f),
                           !.velocity.z = lerp(@, (moveZ * speed) \div 1000, f)]
         IN  Move(SmoothFactor(k, dt))

getCurrentSpeed(p) == Sqrt(p.velocity.x * p.velocity.x + p.velocity.z * p.velocity.z)

startCrouch(p) ==
    Called([p EXCEPT !.isCrouching = TRUE, !.currentHeight = CROUCH_HEIGHT], "startCrouch")

endCrouch(p) ==
    Called([p EXCEPT !.isCrouching = FALSE, !.currentHeight = HEIGHT], "endCrouch")

startSlide(p) ==
    LET Slide(speed) ==
            LET momentumBoost == Max2(0, ((speed - WALK_SPEED) * 3) \div 10)
                slideSpeed == Max2(speed, SLIDE_SPEED) + momentumBoost
            IN  [p EXCEPT !.isSliding = TRUE,
                          !.isCrouching = FALSE,
                          !.slideTime = 0,
                          !.currentHeight = CROUCH_HEIGHT,
                          !.velocity.x = IF speed > 0 THEN (@ * slideSpeed) \div speed
                                         ELSE getForwardDirection.x * SLIDE_SPEED,
                          !.velocity.z = IF speed > 0 THEN (@ * slideSpeed) \div speed
                                         ELSE getForwardDirection.z * SLIDE_SPEED]
    IN  Called(Slide(getCurrentSpeed(p)), "startSlide")

endSlide(p) ==
    Called([p EXCEPT !.isSliding = FALSE, !.slideCooldown = SLIDE_COOLDOWN], "endSlide")

endCrouchSlide(p) ==
    LET EndCrouchOf(a) == IF a.isCrouching THEN endCrouch(a) ELSE a
    IN  EndCrouchOf(IF p.isSliding THEN endSlide(p) ELSE p)

updateCrouchHeight(p) ==
    [p EXCEPT !.currentHeight = IF p.isSliding \/ p.isCrouching THEN CROUCH_HEIGHT ELSE HEIGHT]

\* the stand-up rays meet nothing
canStandUp(p, e) == e.standClear

\* newSpeed of the slide branch: the horizontal speed less the friction of dt
SlideNewSpeed(p, dt) ==
    LET Decay(slideSpeed) ==
            LET momentumFactor == Max2(300, (slideSpeed * 1000) \div SLIDE_SPEED)
                effectiveFriction == (SLIDE_FRICTION * 1000) \div momentumFactor
                decelAmount == (effectiveFriction * dt) \div 1000
            IN  Max2(0, slideSpeed - decelAmount)
    IN  Decay(getCurrentSpeed(p))

\* the slide just ends once it is too slow
SlideTooSlowStands(p, newSpeed) ==
    IF newSpeed < SLIDE_MIN_SPEED THEN endSlide(p) ELSE p

\* the slide ends in a crouch once it is too slow
SlideTooSlow(p, newSpeed) ==
    IF newSpeed < SLIDE_MIN_SPEED THEN startCrouch(endSlide(p)) ELSE p

\* the cancelled slide goes on under the crouch when there is no room to stand
SlideCancelCrouches(p, in, e) ==
    IF in.crouchPressed
    THEN IF ~canStandUp(p, e) THEN startCrouch(p) ELSE endSlide(p)
    ELSE p

\* the slide is cancelled by pressing crouch again
SlideCancel(p, in, e) ==
    LET Stand(a) == IF ~canStandUp(a, e) THEN startCrouch(a) ELSE a
    IN  IF in.crouchPressed THEN Stand(endSlide(p)) ELSE p

handleCrouchSlide(p, in, e, dt) ==
    LET Sliding(slideSpeed, newSpeed) ==
            SlideCancel(
                SlideTooSlow(
                    [p EXCEPT !.slideTime = @ + dt,
                              !.velocity.x = IF newSpeed > 0 /\ slideSpeed > 0
                                             THEN (@ * newSpeed) \div slideSpeed ELSE @,
                              !.velocity.z = IF newSpeed > 0 /\ slideSpeed > 0
                                             THEN (@ * newSpeed) \div slideSpeed ELSE @],
                    newSpeed),
                in, e)
        Toggle ==
            IF in.crouchPressed /\ p.isGrounded
            THEN IF p.isCrouching
                 THEN IF canStandUp(p, e) THEN endCrouch(p) ELSE p
                 ELSE startCrouch(p)
            ELSE p
    IN  IF p.isWallRunning THEN (IF p.isSliding THEN endSlide(p) ELSE p)
        ELSE IF ~p.isGrounded /\ ~p.isSliding /\ ~p.isCrouching THEN p
        ELSE IF p.isSliding THEN Sliding(getCurrentSpeed(p), SlideNewSpeed(p, dt))
        ELSE IF /\ in.crouchPressed
                /\ p.isSprinting
                /\ p.sprintTime >= SLIDE_MIN_SPRINT_TIME
                /\ p.slideCooldown <= 0
                /\ p.isGrounded
             THEN startSlide(p)
        ELSE updateCrouchHeight(Toggle)

endWallRun(p) ==
    Called([p EXCEPT !.isWallRunning = FALSE, !.wallRunCooldown = WALL_RUN_COOLDOWN],
           "endWallRun")

jump(p) ==
    LET Cancel(a) == IF a.isCrouching \/ a.isSliding THEN endCrouchSlide(a) ELSE a
    IN  Cancel(Called([p EXCEPT !.velocity.y = JUMP_FORCE,
                                !.isGrounded = FALSE,
                                !.canJump = FALSE,
                                !.jumpCooldown = JUMP_COOLDOWN,
                                !.coyoteTime = 0,
                                !.jumpBufferTime = 0],
                      "jump"))

wallJump(p) ==
    LET After(a) == [a EXCEPT !.wallRunCooldown = WALL_JUMP_COOLDOWN,
                              !.jumpBufferTime = 0,
                              !.jumpCooldown = JUMP_COOLDOWN]
    IN  After(endWallRun(Called(
                  [p EXCEPT !.velocity.y = (JUMP_FORCE * 9) \div 10,
                            !.velocity.x = @ + p.wallNormal.x * WALL_JUMP_PUSH,
                            !.velocity.z = @ + p.wallNormal.z * WALL_JUMP_PUSH],
                  "wallJump")))

\* handleJump without the coyote grace: only a grounded body jumps
handleJumpNoCoyote(p, in) ==
    LET Buffered(b) ==
            IF b.isWallRunning /\ b.jumpBufferTime > 0 THEN wallJump(b)
            ELSE IF b.jumpBufferTime > 0 /\ b.isGrounded /\ b.jumpCooldown <= 0
                 THEN jump(b)
            ELSE b
    IN  Buffered(IF in.jumpPressed THEN [p EXCEPT !.jumpBufferTime = JUMP_BUFFER] ELSE p)

\* handleJump without the buffer: only the press of this frame counts
handleJumpNoBuffer(p, in) ==
    LET Pressed(b) ==
            IF b.isWallRunning /\ in.jumpPressed THEN wallJump(b)
            ELSE IF /\ in.jumpPressed
                    /\ (b.isGrounded \/ b.coyoteTime > 0)
                    /\ b.jumpCooldown <= 0
                 THEN jump(b)
            ELSE b
    IN  Pressed([p EXCEPT !.jumpBufferTime = 0])

handleJump(p, in) ==
    LET Buffered(b) ==
            IF b.isWallRunning /\ b.jumpBufferTime > 0 THEN wallJump(b)
            ELSE IF /\ b.jumpBufferTime > 0
                    /\ (b.isGrounded \/ b.coyoteTime > 0)
                    /\ b.jumpCooldown <= 0
                 THEN jump(b)
            ELSE b
    IN  Buffered(IF in.jumpPressed THEN [p EXCEPT !.jumpBufferTime = JUMP_BUFFER] ELSE p)

\* the wall rays of the frame: near a wall and its horizontal normal
detectWall(p, e) == [isNearWall |-> e.wall # NoWall, normal |-> e.wall]

startWallRun(p, wallNormal) ==
    Called([p EXCEPT !.isWallRunning = TRUE,
                     !.wallNormal = wallNormal,
                     !.wallRunTime = 0,
                     !.velocity.y = IF @ < 0 THEN WALL_RUN_BOOST ELSE @],
           "startWallRun")

handleWallRun(p, e, dt) ==
    LET forward == getForwardDirection
        dot == forward.x * p.wallNormal.x + forward.z * p.wallNormal.z
        \* forward projected onto the wall plane; of length 0 or 1 for the
        \* axis-parallel walls of the path
        dirX == forward.x - p.wallNormal.x * dot
        dirZ == forward.z - p.wallNormal.z * dot
        Running(a) ==
            IF a.wallRunTime >= WALL_RUN_MAX_TIME THEN endWallRun(a)
            ELSE IF ~detectWall(a, e).isNearWall THEN endWallRun(a)
            ELSE [a EXCEPT !.velocity.x = dirX * WALL_RUN_SPEED,
                           !.velocity.z = dirZ * WALL_RUN_SPEED]
        Grounded(a) == [a EXCEPT !.wallRunTime = 0]
    IN  IF p.isGrounded THEN Grounded(IF p.isWallRunning THEN endWallRun(p) ELSE p)
        ELSE IF p.isWallRunning THEN Running([p EXCEPT !.wallRunTime = @ + dt])
        ELSE IF p.wallRunCooldown > 0 THEN p
        ELSE IF ~p.isMoving THEN p
        ELSE IF detectWall(p, e).isNearWall THEN startWallRun(p, detectWall(p, e).normal)
        ELSE p

applyGravity(p, dt) ==
    IF p.isWallRunning THEN [p EXCEPT !.velocity.y = WALL_RUN_DRIFT]
    ELSE IF ~p.isGrounded
         THEN [p EXCEPT !.velocity.y = Max2(TERMINAL_VELOCITY, @ + (GRAVITY * dt) \div 1000)]
    ELSE p

\* the ceiling rays of the frame meet an obstacle
checkCeilingCollision(p, e) == e.ceiling

applyVelocity(p, e, dt) ==
    LET moveY == p.velocity.y * dt
        moveX == p.velocity.x * dt
        moveZ == p.velocity.z * dt
        hitY == moveY > 0 /\ checkCeilingCollision(p, e)
        hitX == moveX # 0 /\ e.blockedX
        hitZ == moveZ # 0 /\ e.blockedZ
    IN  [p EXCEPT !.position.y = IF hitY THEN @ ELSE @ + moveY,
                  !.velocity.y = IF hitY THEN 0 ELSE @,
                  !.position.x = IF hitX THEN @ ELSE @ + moveX,
                  !.velocity.x = IF hitX THEN 0 ELSE @,
                  !.position.z = IF hitZ THEN @ ELSE @ + moveZ,
                  !.velocity.z = IF hitZ THEN 0 ELSE @]

\* the ground rays start a quarter of the body height above the feet and
\* reach three quarters of it down; they meet the surface of the frame when
\* it lies in that range
getGroundHeightWithInfo(p, e) ==
    LET rayStartY == p.position.y + p.currentHeight \div 4
        far == (p.currentHeight * 3) \div 4
        hit == /\ e.ground # "none"
               /\ SurfaceY <= rayStartY
               /\ rayStartY - SurfaceY <= far
    IN  [hit |-> hit,
         height |-> IF hit THEN SurfaceY ELSE 0,
         isBouncy |-> hit /\ e.ground = "bouncy",
         bounceForce |-> IF hit /\ e.ground = "bouncy" THEN BOUNCE_FORCE ELSE 0]

checkGround(p, e) ==
    LET wasGrounded == p.isGrounded
        Land(a) == IF ~wasGrounded THEN Called(a, "PLAYER_LAND") ELSE a
        Stop(a) == Land([a EXCEPT !.velocity.y = IF @ < 0 THEN 0 ELSE @,
                                  !.isGrounded = TRUE,
                                  !.canJump = TRUE,
                                  !.coyoteTime = COYOTE_TIME])
        OnObstacle(g) ==
            IF g.hit /\ p.position.y <= g.height + GROUND_TOLERANCE
            THEN IF g.isBouncy /\ p.velocity.y <= 0
                 THEN Called([p EXCEPT !.position.y = g.height,
                                       !.velocity.y = g.bounceForce,
                                       !.isGrounded = FALSE],
                             "PLAYER_JUMP")
                 ELSE Stop([p EXCEPT !.position.y = g.height])
            ELSE [p EXCEPT !.isGrounded = FALSE,
                           !.jumpBufferTime = IF wasGrounded /\ p.velocity.y <= 0 THEN 0 ELSE @]
    IN  IF p.position.y <= 0 THEN Stop([p EXCEPT !.position.y = 0])
        ELSE OnObstacle(getGroundHeightWithInfo(p, e))

checkSprintEvents(p) ==
    LET Emit(a) == IF p.isSprinting /\ ~p.wasSprinting THEN Called(a, "PLAYER_SPRINT_START")
                   ELSE IF ~p.isSprinting /\ p.wasSprinting THEN Called(a, "PLAYER_SPRINT_END")
                   ELSE a
    IN  Emit([p EXCEPT !.wasSprinting = p.isSprinting])

checkCrouchSlideEvents(p) ==
    LET Emit(a) == IF p.isCrouching /\ ~p.wasCrouching THEN Called(a, "PLAYER_CROUCH_START")
                   ELSE IF ~p.isCrouching /\ p.wasCrouching THEN Called(a, "PLAYER_CROUCH_END")
                   ELSE a
    IN  Emit([p EXCEPT !.wasCrouching = p.isCrouching, !.wasSliding = p.isSliding])

\* Player.update: the body after the update, and on the way after the
\* timers, after the crouch/slide step and after the jump step
playerUpdate(p, in, e, dt) ==
    LET Physics(a) ==
            checkCrouchSlideEvents(checkSprintEvents(
                checkGround(applyVelocity(applyGravity(handleWallRun(a, e, dt), dt), e, dt), e)))
        FromJump(t, c, j) ==
            [timers |-> t, crouchSlide |-> c, jump |-> j, player |-> Physics(j)]
        FromCrouchSlide(t, c) == FromJump(t, c, handleJump(handleMovement(c, in, dt), in))
        FromTimers(t) == FromCrouchSlide(t, handleCrouchSlide(t, in, e, dt))
    IN  FromTimers(updateTimers([p EXCEPT !.calls = << >>], dt))

\* what the history variable ev records of the last step.  onSurface: the
\* last ground check found the body on the floor or on an obstacle; sinceLeft:
\* ms of frames since the body left such a surface without jumping (-1: not
\* in that case); sincePress: ms of frames since a jump press in the air that
\* executed no jump (-1: none pending); owed: the body landed this frame with
\* such a press at most JUMP_BUFFER old.  The other fields describe the frame
\* itself and are explained where Frame sets them.
NoEvent(kind) ==
    [kind |-> kind, dt |-> 0, jumpPressed |-> FALSE, crouchPressed |-> FALSE,
     standClear |-> FALSE, jumped |-> FALSE, died |-> FALSE,
     fromRest |-> FALSE, coyoteOpen |-> FALSE, cooldownElapsed |-> FALSE,
     owedPre |-> FALSE, bufferOpen |-> FALSE,
     slideDecayed |-> FALSE, crouchAfterStep |-> FALSE, slideAfterStep |-> FALSE,
     onSurface |-> FALSE, sinceLeft |-> -1, sincePress |-> -1, owed |-> FALSE,
     delta |-> 0, slideFast |-> FALSE, cooldownAfterStep |-> 0,
     wallAttach |-> FALSE, attachVy |-> 0, heightKept |-> TRUE,
     modesExclusive |-> TRUE,
     sprintOpen |-> FALSE, crouchOpen |-> FALSE, slideOpen |-> FALSE, alternates |-> TRUE,
     bounceReached |-> FALSE,
     sinceDeath |-> -1, sinceDeathPre |-> -1, activated |-> 0,
     generated |-> 0, disposed |-> 0, steady |-> TRUE, worldUpdated |-> "none",
     airJump |-> FALSE, stoodUp |-> FALSE]

InitPlayer ==
    /\ player = NewPlayer
    /\ deathCooldown = 0
    /\ ticks = 0
    /\ ev = NoEvent("init")

vars ==
    << generator, checkpoints, chunks, currentZ, currentHeight, currentRotation,
       totalDistance, allObstacles, isLoaded, activeCheckpoint, lastCheckpointPosition,
       player, deathCooldown, ticks, ev,
       gameStateManager, activeWorld, pointerLocked, InfiniteWorldClass, loading,
       globalEvents, pausedAt >>

menuVars ==
    << gameStateManager, activeWorld, pointerLocked, InfiniteWorldClass, loading,
       globalEvents, pausedAt >>

\* the checkpoint that a step activated, which left w behind where the active
\* checkpoint was active before (0: it activated none)
Activated(active, w) == IF w.activeCheckpoint # active THEN w.activeCheckpoint ELSE 0

\* what ev records of InfiniteWorld.update(playerPosition) that led to r: the
\* checkpoint activated, the chunks generated and disposed, and whether the
\* traveler has advanced by less than one chunk length in every update since
\* the world was built or reset
ObserveWorld(e, playerPosition, r) ==
    [e EXCEPT
        !.activated = Activated(activeCheckpoint, r.w),
        !.generated = r.m.generator.chunkCount - generator.chunkCount,
        !.disposed = Len(chunks) + r.m.generator.chunkCount - generator.chunkCount
                         - Len(r.m.chunks),
        !.steady = ev.steady /\ playerPosition.z - player.position.z < ToPos(CHUNK_LENGTH)]

\* ------------------------------------------------------------------------
\* GameStateManager
\* ------------------------------------------------------------------------
GameState == {"main_menu", "playing", "paused"}
GameMode == {"sandbox", "parkour"}

\* startPlaying() without a mode
NoMode == "null"

NewGameStateManager ==
    [currentState |-> "main_menu", previousState |-> "null", currentMode |-> "sandbox"]

\* the operations return the manager they leave and the events they emitted,
\* in order
Quiet(g) == [g |-> g, emitted |-> << >>]

setState(g, newState) ==
    IF newState \notin GameState THEN Quiet(g)
    ELSE IF newState = g.currentState THEN Quiet(g)
    ELSE [g |-> [g EXCEPT !.previousState = g.currentState, !.currentState = newState],
          emitted |->
              << "STATE_CHANGE" >>
              \o (CASE newState = "main_menu" -> << "MENU_MAIN_SHOW" >>
                    [] newState = "playing" -> << "GAME_RESUME" >>
                    [] OTHER -> << "MENU_PAUSE_SHOW", "GAME_PAUSE" >>)
              \o (CASE g.currentState = "main_menu" -> << "MENU_MAIN_HIDE" >>
                    [] g.currentState = "paused" -> << "MENU_PAUSE_HIDE" >>
                    [] OTHER -> << >>)]

togglePause(g) ==
    IF g.currentState = "playing" THEN setState(g, "paused")
    ELSE IF g.currentState = "paused" THEN setState(g, "playing")
    ELSE Quiet(g)

\* any mode but none is taken as it is
startPlaying(g, mode) ==
    LET g1 == IF mode # NoMode THEN [g EXCEPT !.currentMode = mode] ELSE g
    IN  IF g1.currentState = "main_menu" THEN setState(g1, "playing") ELSE Quiet(g1)

setMode(g, mode) ==
    Quiet(IF mode \in GameMode THEN [g EXCEPT !.currentMode = mode] ELSE g)

returnToMainMenu(g) == setState(g, "main_menu")

resume(g) == IF g.currentState = "paused" THEN setState(g, "playing") ELSE Quiet(g)

\* ------------------------------------------------------------------------
\* EventBus: the listeners of one event.  A listener is registered with on or
\* with once, and its callback either does nothing to the bus or takes the
\* listener named by its target off the bus
\* ------------------------------------------------------------------------
NewEventBus == [listeners |-> << >>, registered |-> << >>, invoked |-> << >>,
                emitted |-> << >>]

\* the game as it is, kept at a pause; the stage is "paused" in the pause
\* menu, "menu" in the main menu reached from there, "reentered" once the game
\* is started from there in the mode it was paused in, and "none" (with
\* nothing kept) otherwise
PausedAt(stage) ==
    IF stage = "none"
    THEN [stage |-> stage, mode |-> "null", position |-> NoPosition, velocity |-> NoPosition,
          chunks |-> << >>, activeCheckpoint |-> 0, totalDistance |-> 0]
    ELSE [stage |-> stage, mode |-> gameStateManager.currentMode,
          position |-> player.position, velocity |-> player.velocity,
          chunks |-> chunks, activeCheckpoint |-> activeCheckpoint,
          totalDistance |-> totalDistance]

InitGen ==
    /\ InitWorld
    /\ InitPlayer
    /\ pausedAt = PausedAt("none")
    /\ gameStateManager = NewGameStateManager
    /\ activeWorld = "world"
    /\ pointerLocked = FALSE
    /\ InfiniteWorldClass = FALSE
    /\ loading = 0
    /\ globalEvents = NewEventBus

\* ------------------------------------------------------------------------
\* Engine.setupGameMode, entered on MAIN_MENU -> PLAYING
\* ------------------------------------------------------------------------
\* the request that enters the game in a mode from wherever the game is: back
\* to the main menu and startPlaying(mode), the module imported and the
\* pointer lock granted within the step
EnterGame(mode) ==
    /\ \E r \in {startPlaying(returnToMainMenu(gameStateManager).g, mode)} :
          /\ gameStateManager' = r.g
          /\ globalEvents' = [globalEvents EXCEPT !.emitted = r.emitted]
    /\ pointerLocked' = TRUE
    /\ InfiniteWorldClass' = (InfiniteWorldClass \/ mode = "parkour")
    /\ UNCHANGED << loading, pausedAt >>

\* parkour mode with no world: a world is created and built, the player put
\* on the spawn point
SetupGameModeBuild(seeds) ==
    /\ ~isLoaded
    /\ \E seed \in seeds :
          \E r \in {build(NewManager, 0, NoPosition, seed)} :
              /\ SetWorld(r.m, r.w)
              /\ ev' = [NoEvent("build") EXCEPT !.activated = Activated(0, r.w)]
    /\ isLoaded' = TRUE
    /\ activeWorld' = "infiniteWorld"
    /\ player' = setPosition(player, SpawnPosition.x, SpawnPosition.y, SpawnPosition.z)
    /\ UNCHANGED << deathCooldown, ticks >>

\* parkour mode with a world: the existing world is reset
SetupGameModeReset(seeds, maxChunks) ==
    /\ isLoaded
    /\ generator.chunkCount + CHUNKS_AHEAD <= maxChunks
    /\ \E seed \in seeds :
          \E r \in {worldReset(Manager, seed)} : SetWorld(r.m, r.w)
    /\ activeWorld' = "infiniteWorld"
    /\ player' = setPosition(player, SpawnPosition.x, SpawnPosition.y, SpawnPosition.z)
    /\ ev' = NoEvent("reset")
    /\ UNCHANGED << isLoaded, deathCooldown, ticks >>

\* any other mode: the infinite world is disposed and dropped if it is the
\* active one, the player put at the origin of the sandbox world
SetupGameModeSandbox ==
    /\ IF activeWorld = "infiniteWorld" /\ isLoaded
       THEN /\ \E m \in {dispose(Manager)} :
                  SetWorld(m, World(m, activeCheckpoint, lastCheckpointPosition))
            /\ isLoaded' = FALSE
       ELSE UNCHANGED worldVars
    /\ activeWorld' = "world"
    /\ player' = setPosition(player, 0, 0, 0)
    /\ ev' = NoEvent("dispose")
    /\ UNCHANGED << deathCooldown, ticks >>

\* the game entered in parkour mode for the first time
SetupBuild(seeds) == SetupGameModeBuild(seeds) /\ EnterGame("parkour")

\* the game entered in parkour mode again
SetupReset(seeds, maxChunks) == SetupGameModeReset(seeds, maxChunks) /\ EnterGame("parkour")

\* the game entered in sandbox mode after parkour
SetupSandbox == isLoaded /\ SetupGameModeSandbox /\ EnterGame("sandbox")

\* InfiniteWorld.update with the player found at one of PlayerPositions (the
\* frames that carried the player there are not part of this step)
WorldUpdate(seeds, maxChunks) ==
    /\ isLoaded
    /\ \E pos \in PlayerPositions :
          /\ NeedsChunk(Manager, pos.z) => generator.chunkCount < maxChunks
          /\ \E seed \in (IF NeedsChunk(Manager, pos.z) THEN seeds ELSE {0}) :
                \E r \in {worldUpdate(Manager, activeCheckpoint, lastCheckpointPosition,
                                      pos, seed)} :
                    /\ SetWorld(r.m, r.w)
                    /\ player' = [player EXCEPT !.position = pos]
                    /\ ev' = ObserveWorld(NoEvent("update"), pos, r)
    /\ UNCHANGED << isLoaded, deathCooldown, ticks >>
    /\ UNCHANGED menuVars

\* ------------------------------------------------------------------------
\* Specification of the generator: a built world streamed forward
\* ------------------------------------------------------------------------


NextGen ==
    \/ SetupBuild((0 .. MaxSeed))
    \/ WorldUpdate((0 .. MaxSeed), MaxGenChunks)

SpecGen == InitGen /\ [][NextGen]_vars

\* ------------------------------------------------------------------------
\* Specification of the checkpoints: build, stream, reset
\* ------------------------------------------------------------------------

NextWorld ==
    \/ SetupBuild((0 .. MaxWorldSeed))
    \/ WorldUpdate((0 .. MaxWorldSeed), MaxWorldChunks)
    \/ SetupReset((0 .. MaxWorldSeed), MaxWorldChunks)
    \/ SetupSandbox

SpecWorld == InitGen /\ [][NextWorld]_vars

\* ------------------------------------------------------------------------
\* Specification of the height of the path: a world streamed further forward,
\* with two draw sequences that select rising patterns
\* ------------------------------------------------------------------------
MaxHeightChunks == 7

NextHeights ==
    \/ SetupBuild({21, 23})
    \/ WorldUpdate({21, 23}, MaxHeightChunks)

SpecHeights == InitGen /\ [][NextHeights]_vars

\* ------------------------------------------------------------------------
\* Specification of the chunk window: one draw sequence, streamed far enough
\* for more chunks to be generated than are ever live
\* ------------------------------------------------------------------------
MaxStreamChunks == 9

NextStream ==
    \/ SetupBuild({0})
    \/ WorldUpdate({0}, MaxStreamChunks)

SpecStream == InitGen /\ [][NextStream]_vars

\* ------------------------------------------------------------------------
\* Engine._update in parkour mode while playing: one frame
\* ------------------------------------------------------------------------
MAX_DELTA == 100
DEATH_COOLDOWN == 1000

\* InfiniteWorld.getRespawnPosition: the last checkpoint position or the spawn point
worldRespawnPosition(last) == IF last.set THEN last ELSE SpawnPosition

\* Engine.handleParkourDeath: teleport, velocity zeroed, isGrounded set
handleParkourDeath(p, last) ==
    LET Respawn(respawnPos) ==
            [setPosition(p, respawnPos.x, respawnPos.y, respawnPos.z)
                EXCEPT !.velocity = Vec3(0, 0, 0), !.isGrounded = TRUE]
    IN  Respawn(worldRespawnPosition(last))

\* handler or event name was noted during the update that led to p
Did(p, name) == \E i \in 1 .. Len(p.calls) : p.calls[i] = name

\* the start and end events of one kind among the calls of an update, read in
\* order: s.open tells whether the last event of the kind was a start, s.ok
\* whether no start followed a start and no end an end (or nothing)
RECURSIVE Alternation(_, _, _, _, _)
Alternation(calls, i, start, end, s) ==
    IF i > Len(calls) THEN s
    ELSE Alternation(calls, i + 1, start, end,
            IF calls[i] = start THEN [open |-> TRUE, ok |-> s.ok /\ ~s.open]
            ELSE IF calls[i] = end THEN [open |-> FALSE, ok |-> s.ok /\ s.open]
            ELSE s)

\* what ev records of a frame: old is ev before the frame, p the body before
\* it, u the result of the update, dies whether the death branch was taken
Observe(old, p, u, in, e, delta, dt, dies) ==
    LET \* the body after the wall-run step and after gravity
        wallRun == handleWallRun(u.jump, e, dt)
        gravity == applyGravity(wallRun, dt)
        moved == applyVelocity(gravity, e, dt)
        ground == getGroundHeightWithInfo(moved, e)
        wallAttach == /\ ~u.jump.isWallRunning
                      /\ wallRun.isWallRunning
                      /\ u.jump.velocity.y < 0
        Events(start, end, open) ==
            Alternation(u.player.calls, 1, start, end, [open |-> open, ok |-> TRUE])
        sprint == Events("PLAYER_SPRINT_START", "PLAYER_SPRINT_END", old.sprintOpen)
        crouch == Events("PLAYER_CROUCH_START", "PLAYER_CROUCH_END", old.crouchOpen)
        slide == Events("startSlide", "endSlide", old.slideOpen)
        jumped == Did(u.jump, "jump") \/ Did(u.jump, "wallJump")
        landed == ~u.jump.isGrounded /\ u.player.isGrounded
        \* the ground check found the body grounded and not rising, and in the air
        left == /\ old.onSurface
                /\ u.jump.isGrounded
                /\ ~u.player.isGrounded
                /\ u.player.velocity.y <= 0
        sinceLeft ==
            IF dies THEN -1
            ELSE IF left THEN 0
            ELSE IF u.player.isGrounded \/ jumped THEN -1
            ELSE IF old.sinceLeft >= 0 /\ old.sinceLeft + dt < COYOTE_TIME
                 THEN old.sinceLeft + dt
            ELSE -1
        sincePress ==
            IF dies THEN -1
            ELSE IF jumped THEN -1
            ELSE IF in.jumpPressed /\ ~u.timers.isGrounded THEN 0
            ELSE IF old.sincePress >= 0 /\ ~old.owed /\ old.sincePress + dt <= JUMP_BUFFER
                 THEN old.sincePress + dt
            ELSE -1
        \* frame time accumulated since the death handler last ran, this frame
        \* included (-1: it never ran; counted up to DEATH_COOLDOWN)
        sinceDeathPre ==
            IF old.sinceDeath < 0 THEN -1
            ELSE Min2(old.sinceDeath + dt, DEATH_COOLDOWN)
    IN  [kind |-> "frame",
         dt |-> dt,
         jumpPressed |-> in.jumpPressed,
         crouchPressed |-> in.crouchPressed,
         standClear |-> e.standClear,
         jumped |-> jumped,
         died |-> dies,
         fromRest |-> /\ old.onSurface
                      /\ p.isGrounded
                      /\ p.velocity = Vec3(0, 0, 0)
                      /\ p.jumpCooldown <= 0
                      /\ ~p.isCrouching /\ ~p.isSliding /\ ~p.isWallRunning,
         coyoteOpen |-> old.sinceLeft >= 0 /\ old.sinceLeft + dt < COYOTE_TIME,
         cooldownElapsed |-> u.timers.jumpCooldown <= 0,
         owedPre |-> old.owed,
         bufferOpen |-> old.sincePress >= 0 /\ old.sincePress + dt < JUMP_BUFFER,
         slideDecayed |-> /\ u.timers.isSliding
                          /\ ~u.timers.isWallRunning
                          /\ SlideNewSpeed(u.timers, dt) < SLIDE_MIN_SPEED,
         crouchAfterStep |-> u.crouchSlide.isCrouching,
         slideAfterStep |-> u.crouchSlide.isSliding,
         onSurface |-> ~dies /\ u.player.isGrounded,
         sinceLeft |-> sinceLeft,
         sincePress |-> sincePress,
         owed |-> ~dies /\ landed /\ sincePress >= 0,
         delta |-> delta,
         slideFast |-> /\ u.timers.isSliding
                       /\ ~u.timers.isWallRunning
                       /\ SlideNewSpeed(u.timers, dt) >= SLIDE_MIN_SPEED,
         cooldownAfterStep |-> u.crouchSlide.slideCooldown,
         wallAttach |-> wallAttach,
         attachVy |-> IF wallAttach THEN gravity.velocity.y ELSE 0,
         heightKept |-> moved.position.y >= u.jump.position.y,
         modesExclusive |->
             \A b \in {u.timers, u.crouchSlide, u.jump, wallRun, u.player} :
                 ~(b.isSliding /\ b.isCrouching),
         sprintOpen |-> sprint.open,
         crouchOpen |-> crouch.open,
         slideOpen |-> slide.open,
         alternates |-> sprint.ok /\ crouch.ok /\ slide.ok,
         bounceReached |-> /\ ground.isBouncy
                           /\ u.jump.position.y >= ground.height
                           /\ moved.position.y <= ground.height + GROUND_TOLERANCE
                           /\ moved.velocity.y < 0,
         sinceDeath |-> IF dies THEN 0 ELSE sinceDeathPre,
         sinceDeathPre |-> sinceDeathPre,
         activated |-> 0, generated |-> 0, disposed |-> 0, steady |-> old.steady,
         worldUpdated |-> "none",
         \* a regular jump executed for a body that was in the air
         airJump |-> Did(u.jump, "jump") /\ ~u.crouchSlide.isGrounded,
         \* the body went from crouch height to full height
         stoodUp |-> p.currentHeight = CROUCH_HEIGHT /\ u.player.currentHeight = HEIGHT]

\* a frame after a stall counts for no time at all
deltaTimeSkipsStall(delta) == IF delta > MAX_DELTA THEN 0 ELSE delta

\* the elapsed time of a frame: what the clock reports, capped

deltaTime(delta) == Min2(delta, MAX_DELTA)

\* the cooldown runs twice as fast
coolDownTwice(cooldown, dt) == IF cooldown > 0 THEN cooldown - 2 * dt ELSE cooldown

\* the death cooldown after a frame of dt
coolDown(cooldown, dt) == IF cooldown > 0 THEN cooldown - dt ELSE cooldown

\* the game logic of a frame runs only while playing with the pointer locked
shouldUpdateUnlocked(g, locked) == g.currentState = "playing"

shouldUpdate(g, locked) == g.currentState = "playing" /\ locked

\* the frame: clock.getDelta() capped, player.update, infiniteWorld.update,
\* the death cooldown and the death check.  The frame count stops at
\* maxTicks, or is kept modulo maxTicks when wrap is set
Frame(deltas, inputs, envs, seeds, maxChunks, maxTicks, wrap) ==
    /\ ticks < maxTicks
    /\ IF ~shouldUpdate(gameStateManager, pointerLocked)
       THEN /\ ev' = [ev EXCEPT !.kind = "idle", !.worldUpdated = "none"]
            /\ UNCHANGED << worldVars, player, deathCooldown >>
       ELSE \E delta \in deltas, in \in inputs, e \in envs :
            \E dt \in {deltaTime(delta)} :
            \E u \in {playerUpdate(player, in, e, dt)} :
               IF gameStateManager.currentMode = "parkour" /\ isLoaded
               THEN
                /\ NeedsChunk(Manager, u.player.position.z) => generator.chunkCount < maxChunks
                /\ \E seed \in (IF NeedsChunk(Manager, u.player.position.z) THEN seeds ELSE {0}) :
                   \E r \in {worldUpdate(Manager, activeCheckpoint, lastCheckpointPosition,
                                         u.player.position, seed)} :
                   \E cooldown \in {coolDown(deathCooldown, dt)} :
                   \E dies \in {cooldown <= 0 /\ checkDeath(u.player.position.y)} :
                       /\ SetWorld(r.m, r.w)
                       /\ player' = IF dies
                                    THEN handleParkourDeath(u.player, r.w.lastCheckpointPosition)
                                    ELSE u.player
                       /\ deathCooldown' = IF dies THEN DEATH_COOLDOWN ELSE cooldown
                       /\ ev' = [ObserveWorld(Observe(ev, player, u, in, e, delta, dt, dies),
                                              u.player.position, r)
                                     EXCEPT !.worldUpdated = "infiniteWorld"]
                /\ UNCHANGED isLoaded
               ELSE
                /\ player' = u.player
                /\ ev' = [Observe(ev, player, u, in, e, delta, dt, FALSE)
                              EXCEPT !.worldUpdated = activeWorld]
                /\ UNCHANGED << worldVars, deathCooldown >>
    /\ ticks' = IF wrap THEN (ticks + 1) % maxTicks ELSE ticks + 1
    /\ pausedAt' = IF shouldUpdate(gameStateManager, pointerLocked)
                   THEN PausedAt("none") ELSE pausedAt
    /\ UNCHANGED << gameStateManager, activeWorld, pointerLocked, InfiniteWorldClass,
                    loading, globalEvents >>

\* the death branch of the frame on its own: the handler runs for the body as
\* it is and the cooldown starts
HandleParkourDeath ==
    /\ isLoaded
    /\ deathCooldown <= 0
    /\ player' = handleParkourDeath(player, lastCheckpointPosition)
    /\ deathCooldown' = DEATH_COOLDOWN
    /\ ev' = [NoEvent("death") EXCEPT !.sinceDeath = 0, !.sinceDeathPre = ev.sinceDeath]
    /\ UNCHANGED << worldVars, ticks >>
    /\ UNCHANGED menuVars

\* the keys of a frame
Keys(forward, sprint, jumpPressed, crouchPressed) ==
    [forward |-> forward, backward |-> FALSE, left |-> FALSE, right |-> FALSE,
     sprint |-> sprint, jumpPressed |-> jumpPressed, crouchPressed |-> crouchPressed]

\* the raycast results of a frame
Probe(ground, ceiling, blocked, wall, standClear) ==
    [ground |-> ground, ceiling |-> ceiling, blockedX |-> blocked, blockedZ |-> blocked,
     wall |-> wall, standClear |-> standClear]

\* ------------------------------------------------------------------------
\* Jumping: a standing body over or off a platform, under or not under a ceiling
\* ------------------------------------------------------------------------
MaxJumpTicks == 5

NextJump ==
    \/ SetupBuild({0})
    \/ isLoaded /\ Frame({5, 100}, { Keys(FALSE, FALSE, j, FALSE) : j \in BOOLEAN }, { Probe("none", FALSE, FALSE, NoWall, TRUE), Probe("solid", FALSE, FALSE, NoWall, TRUE), Probe("solid", TRUE, FALSE, NoWall, TRUE) }, {0}, MaxWorldChunks, MaxJumpTicks, FALSE)

SpecJump == InitGen /\ [][NextJump]_vars

\* ------------------------------------------------------------------------
\* Coyote time and jump buffer: a body walking on, off and along a wall
\* ------------------------------------------------------------------------
MaxCoyoteTicks == 5

NextCoyote ==
    \/ SetupBuild({0})
    \/ isLoaded /\ Frame({5, 100}, { Keys(TRUE, FALSE, j, FALSE) : j \in BOOLEAN }, { Probe("none", FALSE, FALSE, NoWall, TRUE), Probe("none", FALSE, FALSE, Vec3(1, 0, 0), TRUE), Probe("solid", FALSE, FALSE, NoWall, TRUE), Probe("solid", TRUE, FALSE, NoWall, TRUE) }, {0}, MaxWorldChunks, MaxCoyoteTicks, FALSE)

SpecCoyote == InitGen /\ [][NextCoyote]_vars

\* ------------------------------------------------------------------------
\* Sliding: a sprinting body on a platform, running into obstacles or not
\* ------------------------------------------------------------------------
MaxSlideTicks == 6

NextSlide ==
    \/ SetupBuild({0})
    \/ isLoaded /\ Frame({100}, { Keys(TRUE, TRUE, j, c) : j, c \in BOOLEAN }, { Probe("solid", FALSE, b, NoWall, s) : b, s \in BOOLEAN }, {0}, MaxWorldChunks, MaxSlideTicks, FALSE)

SpecSlide == InitGen /\ [][NextSlide]_vars

\* ------------------------------------------------------------------------
\* Death and respawn: a body that stands, crouches or falls, and the death
\* handler run for it
\* ------------------------------------------------------------------------
MaxDeathTicks == 4

NextDeath ==
    \/ SetupBuild({0})
    \/ isLoaded /\ Frame({100}, { Keys(FALSE, FALSE, j, c) : j, c \in BOOLEAN }, { Probe("none", FALSE, FALSE, NoWall, TRUE), Probe("solid", FALSE, FALSE, NoWall, TRUE) }, {0}, MaxWorldChunks, MaxDeathTicks, FALSE)
    \/ HandleParkourDeath

SpecDeath == InitGen /\ [][NextDeath]_vars

\* ------------------------------------------------------------------------
\* The death cooldown: a body at rest on a platform, frames of 50 or 100 ms,
\* and the death branch taken whenever the cooldown allows it
\* ------------------------------------------------------------------------
MaxCooldownTicks == 12

NextCooldown ==
    \/ SetupBuild({0})
    \/ isLoaded /\ Frame({50, 100}, {Keys(FALSE, FALSE, FALSE, FALSE)},
             {Probe("solid", FALSE, FALSE, NoWall, TRUE)}, {0}, MaxWorldChunks,
             MaxCooldownTicks, FALSE)
    \/ HandleParkourDeath

SpecCooldown == InitGen /\ [][NextCooldown]_vars

\* ------------------------------------------------------------------------
\* Falling: a body off the path, no obstacle beneath it in any frame; the
\* frames never stop
\* ------------------------------------------------------------------------
FallTicks == 4

NextFall ==
    \/ SetupBuild({0})
    \/ isLoaded /\ Frame({50, 100}, { Keys(FALSE, FALSE, j, FALSE) : j \in BOOLEAN }, { Probe("none", FALSE, FALSE, NoWall, TRUE) }, {0}, MaxWorldChunks, FallTicks, TRUE)

\* what every frame does to the frame count
FrameCount == isLoaded /\ ticks' = (ticks + 1) % FallTicks

\* _update asks for the next animation frame before anything else, so that
\* once the world is loaded frames keep coming: the frame count keeps advancing
SpecFall == InitGen /\ [][NextFall]_vars /\ WF_ticks(FrameCount)

\* ------------------------------------------------------------------------
\* The clock: frames after a stall, frames with no time elapsed
\* ------------------------------------------------------------------------
MaxClockTicks == 4

NextClock ==
    \/ SetupBuild({0})
    \/ isLoaded /\ Frame({0, 50, 100, 500, 1000}, { Keys(FALSE, FALSE, j, FALSE) : j \in BOOLEAN }, { Probe("none", FALSE, FALSE, NoWall, TRUE), Probe("solid", FALSE, FALSE, NoWall, TRUE) }, {0}, MaxWorldChunks, MaxClockTicks, FALSE)

SpecClock == InitGen /\ [][NextClock]_vars

\* ------------------------------------------------------------------------
\* Bouncing: a body falling or jumping over a platform, a bounce pad or nothing
\* ------------------------------------------------------------------------
MaxBounceTicks == 5

NextBounce ==
    \/ SetupBuild({0})
    \/ isLoaded /\ Frame({20, 100}, { Keys(FALSE, FALSE, j, FALSE) : j \in BOOLEAN }, { Probe("none", FALSE, FALSE, NoWall, TRUE), Probe("solid", FALSE, FALSE, NoWall, TRUE), Probe("bouncy", FALSE, FALSE, NoWall, TRUE) }, {0}, MaxWorldChunks, MaxBounceTicks, FALSE)

SpecBounce == InitGen /\ [][NextBounce]_vars

\* ------------------------------------------------------------------------
\* Wall running: a body thrown up by a bounce pad that attaches to a wall and
\* runs along it for as long as it can
\* ------------------------------------------------------------------------
MaxWallRunTicks == 66

NextWallRun ==
    \/ SetupBuild({0})
    \/ /\ ~player.isWallRunning
       /\ isLoaded /\ Frame({100}, { Keys(TRUE, FALSE, FALSE, FALSE) }, { Probe("bouncy", FALSE, FALSE, NoWall, TRUE), Probe("none", FALSE, FALSE, Vec3(1, 0, 0), TRUE) }, {0}, MaxWorldChunks,
                MaxWallRunTicks, FALSE)
    \/ /\ player.isWallRunning
       /\ isLoaded /\ Frame({90, 100}, { Keys(TRUE, FALSE, FALSE, FALSE) }, { Probe("none", FALSE, FALSE, Vec3(1, 0, 0), TRUE) }, {0}, MaxWorldChunks,
                MaxWallRunTicks, FALSE)

SpecWallRun == InitGen /\ [][NextWallRun]_vars


\* ------------------------------------------------------------------------
\* Platform layout
\* ------------------------------------------------------------------------
\* The menus: the operations of GameStateManager with Engine._onStateChange
\* as the listener of STATE_CHANGE, the import inside setupGameMode as a step
\* of its own, pointer lock changes, and frames in every state
\* ------------------------------------------------------------------------
MaxLoading == 1
MaxMenuTicks == 2

\* setupGameMode past the import: the world is created or reset
SetupGameModeParkour(seeds, maxChunks) ==
    IF ~isLoaded THEN SetupGameModeBuild(seeds) ELSE SetupGameModeReset(seeds, maxChunks)

\* setupGameMode for the mode read on entry; the call is suspended at the
\* import while the module is not there
setupGameMode(mode, seeds, maxChunks) ==
    IF mode = "parkour"
    THEN IF ~InfiniteWorldClass
         THEN /\ loading < MaxLoading
              /\ loading' = loading + 1
              /\ ev' = NoEvent("menu")
              /\ UNCHANGED << worldVars, player, deathCooldown, ticks, activeWorld,
                              InfiniteWorldClass >>
         ELSE /\ SetupGameModeParkour(seeds, maxChunks)
              /\ UNCHANGED << InfiniteWorldClass, loading >>
    ELSE /\ SetupGameModeSandbox
         /\ UNCHANGED << InfiniteWorldClass, loading >>

\* Engine._onStateChange; the pointer lock it requests is granted by a later
\* PointerLockChange
OnStateChange(from, to, mode, seeds, maxChunks) ==
    IF to = "playing" /\ from = "main_menu"
    THEN setupGameMode(mode, seeds, maxChunks)
    ELSE /\ ev' = NoEvent("menu")
         /\ UNCHANGED << worldVars, player, deathCooldown, ticks, activeWorld,
                         InfiniteWorldClass, loading >>

\* an operation of the manager that returned r, and the listener of the
\* state change it emitted
StateRequest(r, seeds, maxChunks) ==
    /\ gameStateManager' = r.g
    /\ globalEvents' = [globalEvents EXCEPT !.emitted = r.emitted]
    /\ pausedAt' =
          LET from == gameStateManager.currentState
              to == r.g.currentState
          IN  IF from = to THEN pausedAt
              ELSE IF from = "playing" /\ to = "paused" THEN PausedAt("paused")
              ELSE IF from = "paused" /\ to = "main_menu" /\ pausedAt.stage = "paused"
                   THEN [pausedAt EXCEPT !.stage = "menu"]
              ELSE IF /\ from = "main_menu" /\ to = "playing" /\ pausedAt.stage = "menu"
                      /\ r.g.currentMode = pausedAt.mode
                   THEN [pausedAt EXCEPT !.stage = "reentered"]
              ELSE PausedAt("none")
    /\ IF r.emitted # << >>
       THEN OnStateChange(gameStateManager.currentState, r.g.currentState,
                          r.g.currentMode, seeds, maxChunks)
       ELSE /\ ev' = NoEvent("menu")
            /\ UNCHANGED << worldVars, player, deathCooldown, ticks, activeWorld,
                            InfiniteWorldClass, loading >>
    /\ UNCHANGED pointerLocked

\* the import resolves: a suspended setupGameMode goes on in parkour mode,
\* whatever the state and the mode are by now
LoadResolves(seeds, maxChunks) ==
    /\ loading > 0
    /\ loading' = loading - 1
    /\ InfiniteWorldClass' = TRUE
    /\ SetupGameModeParkour(seeds, maxChunks)
    /\ UNCHANGED << gameStateManager, pointerLocked, globalEvents, pausedAt >>

\* InputManager._onPointerLockChange: the browser grants or ends the lock
PointerLockChange ==
    /\ pointerLocked' = ~pointerLocked
    /\ globalEvents' = [globalEvents EXCEPT
                           !.emitted = IF pointerLocked THEN << "INPUT_UNLOCK" >>
                                       ELSE << "INPUT_LOCK" >>]
    /\ ev' = NoEvent("menu")
    /\ UNCHANGED << worldVars, player, deathCooldown, ticks, gameStateManager,
                    activeWorld, InfiniteWorldClass, loading, pausedAt >>

NextMenu ==
    \/ \E newState \in GameState \cup {"credits"} :
          StateRequest(setState(gameStateManager, newState), {0}, MaxWorldChunks)
    \/ \E mode \in GameMode \cup {NoMode} :
          StateRequest(startPlaying(gameStateManager, mode), {0}, MaxWorldChunks)
    \/ \E mode \in GameMode \cup {"arcade"} :
          StateRequest(setMode(gameStateManager, mode), {0}, MaxWorldChunks)
    \/ StateRequest(togglePause(gameStateManager), {0}, MaxWorldChunks)
    \/ StateRequest(resume(gameStateManager), {0}, MaxWorldChunks)
    \/ StateRequest(returnToMainMenu(gameStateManager), {0}, MaxWorldChunks)
    \/ LoadResolves({0}, MaxWorldChunks)
    \/ PointerLockChange
    \/ Frame({100}, { Keys(TRUE, FALSE, FALSE, FALSE) },
             { Probe("solid", FALSE, FALSE, NoWall, TRUE) }, {0}, MaxWorldChunks,
             MaxMenuTicks, FALSE)

SpecMenu == InitGen /\ [][NextMenu]_vars

\* ------------------------------------------------------------------------
\* EventBus: on, once, off and emit for one event.  A callback is a number;
\* the wrapper that once registers for callback c is -c, which nothing but
\* the wrapper itself can name.  Called, callback c takes the callback
\* removes[c] off the bus (0: it leaves the bus alone)
\* ------------------------------------------------------------------------
MaxListeners == 2

on(bus, callback, removes) ==
    [bus EXCEPT !.listeners = Append(@, [callback |-> callback, removes |-> removes])]

once(bus, callback, removes) == on(bus, -callback, removes)

\* findIndex and splice(index, 1)
off(listeners, callback) ==
    LET found == { i \in 1 .. Len(listeners) : listeners[i].callback = callback }
    IN  IF found = {} THEN listeners
        ELSE LET index == CHOOSE i \in found : \A j \in found : i <= j
             IN  [i \in 1 .. Len(listeners) - 1 |->
                      IF i < index THEN listeners[i] ELSE listeners[i + 1]]

\* listeners.forEach over the array that off splices: index k of the length
\* the array had when the loop began; an index past the end is passed over
RECURSIVE forEach(_, _, _, _)
forEach(listeners, k, length, invoked) ==
    IF k > length THEN [listeners |-> listeners, invoked |-> invoked]
    ELSE IF k > Len(listeners) THEN forEach(listeners, k + 1, length, invoked)
    ELSE LET l == listeners[k]
             unwrapped == IF l.callback < 0 THEN off(listeners, l.callback) ELSE listeners
             called == IF l.removes # 0 THEN off(unwrapped, l.removes) ELSE unwrapped
         IN  forEach(called, k + 1, length, Append(invoked, l.callback))

\* emit; registered keeps the callbacks that were on the bus at the call
emit(bus) ==
    LET r == forEach(bus.listeners, 1, Len(bus.listeners), << >>)
    IN  [bus EXCEPT !.listeners = r.listeners,
                    !.registered = [i \in 1 .. Len(bus.listeners) |-> bus.listeners[i].callback],
                    !.invoked = r.invoked]

\* an operation on the bus that leaves it as b
Bus(b) ==
    /\ globalEvents' = b
    /\ UNCHANGED << worldVars, player, deathCooldown, ticks, ev, gameStateManager,
                    activeWorld, pointerLocked, InfiniteWorldClass, loading, pausedAt >>

NextBus ==
    \/ \E c \in 1 .. MaxListeners, removes \in 0 .. MaxListeners :
          /\ Len(globalEvents.listeners) < MaxListeners
          /\ \A i \in 1 .. Len(globalEvents.listeners) :
                globalEvents.listeners[i].callback \notin {c, -c}
          /\ \/ Bus(on(globalEvents, c, removes))
             \/ Bus(once(globalEvents, c, removes))
    \/ \E c \in 1 .. MaxListeners :
          Bus([globalEvents EXCEPT !.listeners = off(@, c)])
    \/ Bus(emit(globalEvents))

SpecBus == InitGen /\ [][NextBus]_vars

\* ------------------------------------------------------------------------
\* the platforms of the live chunks, in path order
RECURSIVE PathFrom(_)
PathFrom(i) ==
    IF i > Len(chunks) THEN << >> ELSE chunks[i].platforms \o PathFrom(i + 1)

Path == PathFrom(1)

\* longitudinal edge-to-edge gap from platform a to the next platform b
EdgeGap(a, b) == ZMin(b) - ZMax(a)

\* C1: every two consecutive platforms of the path, inside a chunk or across
\* the boundary of two chunks, are MIN_EDGE_GAP to MAX_EDGE_GAP apart
C1_GapsInRange ==
    \A i \in 1 .. Len(Path) - 1 :
        /\ MIN_EDGE_GAP <= EdgeGap(Path[i], Path[i + 1])
        /\ EdgeGap(Path[i], Path[i + 1]) <= MAX_EDGE_GAP

\* C2: the buffered footprints of two distinct live platforms never intersect
C2_NoOverlap ==
    \A i, j \in 1 .. Len(Path) : i < j => ~checkOverlap(Path[i], Path[j])

\* platform j of chunk c lies inside [startZ, endZ] of the chunk
InsideChunk(c, j) ==
    /\ c.startZ <= ZMin(c.platforms[j])
    /\ ZMax(c.platforms[j]) <= c.endZ

\* C3: every platform that generateChunk made for a live chunk lies inside
\* [startZ, startZ + length] of that chunk
C3_InsideChunk ==
    \A i \in 1 .. Len(chunks) :
        chunks[i].pattern # "start" =>
            \A j \in 1 .. Len(chunks[i].platforms) : InsideChunk(chunks[i], j)

\* C4: at most one checkpoint carries the activation flag
C4_OneActive ==
    Cardinality({ i \in 1 .. Len(checkpoints) : checkpoints[i].isActivated }) <= 1


\* ------------------------------------------------------------------------
\* Jump timing
\* ------------------------------------------------------------------------
\* C7: when the body has left the ground without jumping and jump is pressed
\* in a later frame while the frame time accumulated since leaving is below
\* COYOTE_TIME, a jump executes in that frame
C7_CoyoteJump ==
    (ev.kind = "frame" /\ ev.jumpPressed /\ ev.coyoteOpen) => ev.jumped

\* C7, with the cooldown: when moreover the jump cooldown has elapsed by that
\* frame, a jump (a wall jump when the body runs along a wall) executes in it
C7_CoyoteJumpAfterCooldown ==
    (ev.kind = "frame" /\ ev.jumpPressed /\ ev.coyoteOpen /\ ev.cooldownElapsed)
        => ev.jumped

\* a jump pressed in the air within the coyote time has executed
C7_Witness ==
    /\ ev.kind = "frame" /\ ev.jumpPressed /\ ev.coyoteOpen /\ ev.cooldownElapsed
    /\ ev.jumped
    /\ Did(player, "jump")
    /\ ~player.isGrounded

C9_JumpFromRest ==
    (ev.kind = "frame" /\ ev.fromRest /\ ev.jumpPressed)
        => (player.velocity.y = JUMP_FORCE /\ ~player.isGrounded)


\* ------------------------------------------------------------------------
\* Sliding
\* ------------------------------------------------------------------------
\* C10: in a frame that the body begins sliding and in which the decayed
\* horizontal speed is below SLIDE_MIN_SPEED, the crouch/slide step leaves
\* isSliding false and isCrouching true, whatever the crouch key and the
\* stand-up query; at the end of the frame the body is not sliding, and it
\* crouches unless a jump of that frame has cancelled the crouch
C10_SlideEndsInCrouch ==
    (ev.kind = "frame" /\ ev.slideDecayed)
        => /\ ev.crouchAfterStep
           /\ ~ev.slideAfterStep
           /\ ~player.isSliding
           /\ (player.isCrouching \/ ev.jumped)

\* a slide too slow has ended in a crouch although crouch was pressed with
\* room to stand up
C10_Witness ==
    /\ ev.kind = "frame" /\ ev.slideDecayed
    /\ ev.crouchPressed /\ ev.standClear
    /\ Did(player, "endSlide")
    /\ player.isCrouching /\ ~player.isSliding


\* ------------------------------------------------------------------------
\* Death and respawn
\* ------------------------------------------------------------------------
\* the checkpoint the world holds as active
ActiveCheckpoint ==
    checkpoints[CHOOSE i \in 1 .. Len(checkpoints) : checkpoints[i].id = activeCheckpoint]

\* C5: once death is handled with a checkpoint active, the body is at the
\* checkpoint's x and z, at the height of its top plus the respawn offset,
\* at rest, and in the Grounded mode: grounded, not sliding, not crouching,
\* not wall-running
C5_RespawnGrounded ==
    (ev.kind = "death" /\ activeCheckpoint # 0)
        => /\ player.position.x = getRespawnPosition(ActiveCheckpoint).x
           /\ player.position.y = getRespawnPosition(ActiveCheckpoint).y
           /\ player.position.z = getRespawnPosition(ActiveCheckpoint).z
           /\ player.velocity = Vec3(0, 0, 0)
           /\ player.isGrounded
           /\ ~player.isSliding /\ ~player.isCrouching /\ ~player.isWallRunning

\* C6: a body in the air off the path comes below the death height, or has
\* its death handled, in some later frame
C6_FallLeadsToDeath ==
    (isLoaded /\ ~player.isGrounded) ~> (checkDeath(player.position.y) \/ ev.died)

\* ------------------------------------------------------------------------
\* Slide cancel, mode flags, timers and events
\* ------------------------------------------------------------------------
\* C11: in a frame that the body begins sliding, in which the decayed speed
\* is still at least SLIDE_MIN_SPEED and crouch is pressed, the crouch/slide
\* step leaves the body crouching and not sliding, with the slide cooldown
\* at SLIDE_COOLDOWN
C11_CancelEndsInCrouch ==
    (ev.kind = "frame" /\ ev.slideFast /\ ev.crouchPressed)
        => /\ ev.crouchAfterStep
           /\ ~ev.slideAfterStep
           /\ ev.cooldownAfterStep = SLIDE_COOLDOWN

\* C13: in a frame in which a descending body in the air starts to run along
\* a wall, the vertical velocity that moves the body is the upward boost and
\* the body is not moved down
C13_AttachKeepsHeight ==
    (ev.kind = "frame" /\ ev.wallAttach)
        => (ev.attachVy = WALL_RUN_BOOST /\ ev.heightKept)

\* C14: after every frame and after a respawn, a body running along a wall
\* is neither grounded nor sliding nor crouching
C14_OneMode ==
    (ev.kind \in {"frame", "death"})
        => ~(player.isWallRunning
                /\ (player.isGrounded \/ player.isSliding \/ player.isCrouching))

\* C15: the body never slides and crouches at once, neither in a state nor
\* after any handler of a frame
C15_SlideCrouchExclusive ==
    ~(player.isSliding /\ player.isCrouching) /\ ev.modesExclusive

\* a fast slide was cancelled under an obstacle: it ended and the crouch began
C15_Witness ==
    /\ ev.kind = "frame" /\ ev.slideFast /\ ev.crouchPressed /\ ~ev.standClear
    /\ Did(player, "endSlide") /\ Did(player, "startCrouch")
    /\ player.isCrouching /\ ~player.isSliding

\* C16: the five timers of the body are never negative
C16_TimersNonNegative ==
    /\ player.jumpCooldown >= 0
    /\ player.coyoteTime >= 0
    /\ player.jumpBufferTime >= 0
    /\ player.wallRunCooldown >= 0
    /\ player.slideCooldown >= 0

\* C17: in every frame the sprint, crouch and slide events go on alternating
\* between start and end, each kind beginning with a start
C17_EventsAlternate ==
    (ev.kind = "frame") => ev.alternates

\* the jump events of the last update: one from each of jump, wallJump,
\* startWallRun and the bounce of checkGround
JumpEvents ==
    Cardinality({ i \in 1 .. Len(player.calls) :
                    player.calls[i] \in {"jump", "wallJump", "startWallRun", "PLAYER_JUMP"} })

\* the jumps and wall jumps executed in the last update
JumpsExecuted ==
    Cardinality({ i \in 1 .. Len(player.calls) : player.calls[i] \in {"jump", "wallJump"} })

\* C18: an update emits as many jump events as it executes jumps and wall jumps
C18_JumpEventPerJump ==
    JumpEvents = JumpsExecuted

\* ------------------------------------------------------------------------
\* Bounce pads and the frame clock
\* ------------------------------------------------------------------------
\* C19: a frame in which a body that was not below a bounce pad comes down
\* on it (the ground rays of the moved body meet the pad within the ground
\* tolerance while the body descends) ends with
\* velocity.y at the pad's bounce force and the body in the air, and no land
\* event is emitted in it
C19_BounceOffPad ==
    (ev.kind = "frame" /\ ev.bounceReached)
        => /\ player.velocity.y = BOUNCE_FORCE
           /\ ~player.isGrounded
           /\ ~Did(player, "PLAYER_LAND")

\* a falling body has bounced off a pad
C19_Witness ==
    /\ ev.kind = "frame" /\ ev.bounceReached
    /\ Did(player, "PLAYER_JUMP")
    /\ player.velocity.y = BOUNCE_FORCE
    /\ ~player.isGrounded

\* C20: the elapsed time a frame works with lies between 0 and MAX_DELTA
\* whatever the clock reports, and it is MAX_DELTA when the clock reports more
C20_DeltaCapped ==
    (ev.kind = "frame")
        => /\ 0 <= ev.dt
           /\ ev.dt <= MAX_DELTA
           /\ (ev.delta > MAX_DELTA => ev.dt = MAX_DELTA)

\* a frame after a stall of half a second has worked with 0.1 s
C20_Witness ==
    ev.kind = "frame" /\ ev.delta = 500 /\ ev.dt = MAX_DELTA

\* ------------------------------------------------------------------------
\* Wall-run time
\* ------------------------------------------------------------------------
\* C12: the wall-run time never exceeds the maximum, and once it has reached
\* the maximum in a frame the body no longer runs along the wall
C12_WallRunTimeBounded ==
    /\ player.wallRunTime <= WALL_RUN_MAX_TIME
    /\ (player.wallRunTime >= WALL_RUN_MAX_TIME => ~player.isWallRunning)


\* ------------------------------------------------------------------------
\* Death cooldown
\* ------------------------------------------------------------------------
\* C21: when the death handler runs, either it never ran before or the frames
\* since its last run add up to at least DEATH_COOLDOWN (1.0 s) of capped time
C21_DeathCooldown ==
    (ev.kind = "death" \/ ev.died) =>
        (ev.sinceDeathPre < 0 \/ ev.sinceDeathPre >= DEATH_COOLDOWN)

\* the handler runs a second time, once the cooldown has run out
C21_Witness == ev.kind = "death" /\ ev.sinceDeathPre >= DEATH_COOLDOWN


\* ------------------------------------------------------------------------
\* Pattern selection
\* ------------------------------------------------------------------------
PatternTypes == { PatternType[i] : i \in 1 .. Len(PatternType) }

\* C22: the pattern of every generated chunk is one of the defined pattern
\* types and differs from the pattern of the chunk generated before it, with
\* or without a checkpoint in either chunk and with a world reset between them
C22_PatternsDiffer ==
    \A i \in 1 .. Len(chunks) :
        chunks[i].pattern # "start" =>
            /\ chunks[i].pattern \in PatternTypes
            /\ chunks[i].pattern # chunks[i].after

\* after a reset, the first chunk follows a chunk of the run before, and a
\* chunk with a checkpoint follows a pattern chunk
C22_Witness ==
    /\ ev.kind = "reset"
    /\ Len(chunks) > 1
    /\ chunks[2].after \in PatternTypes
    /\ \E i \in 2 .. Len(chunks) :
           chunks[i].platforms[1].kind = "checkpoint" /\ chunks[i].after \in PatternTypes


\* ------------------------------------------------------------------------
\* Height of the path
\* ------------------------------------------------------------------------
\* C23: the exit height of every chunk, and with it the entry height of the
\* next chunk, lies in [0, HEIGHT_MAX]
C23_HeightInRange ==
    /\ 0 <= currentHeight /\ currentHeight <= HEIGHT_MAX
    /\ \A i \in 1 .. Len(chunks) :
           0 <= chunks[i].endHeight /\ chunks[i].endHeight <= HEIGHT_MAX


\* ------------------------------------------------------------------------
\* Approach platforms
\* ------------------------------------------------------------------------
\* platform a of the path is one to take a running jump from: a platform or a
\* checkpoint whose successor b lies beyond a gap, or is a bounce pad or a wall
RunningJumpFrom(a, b) ==
    /\ a.kind \in {"basic", "checkpoint"}
    /\ (EdgeGap(a, b) > 0 \/ b.kind \in {"bounce", "wall"})

\* C24: every platform to take a running jump from is at least
\* APPROACH_DISTANCE long, and at least WALL_RUN_APPROACH long before a wall
C24_ApproachLength ==
    \A i \in 1 .. Len(chunks) :
        \A j \in 1 .. Len(chunks[i].platforms) - 1 :
            LET a == chunks[i].platforms[j]
                b == chunks[i].platforms[j + 1]
            IN RunningJumpFrom(a, b) =>
                   /\ a.l >= APPROACH_DISTANCE
                   /\ b.kind = "wall" => a.l >= WALL_RUN_APPROACH


\* ------------------------------------------------------------------------
\* Checkpoint placement
\* ------------------------------------------------------------------------
\* C25: while the start chunk of the run is live, the k-th chunk generated
\* after it begins with a checkpoint exactly when k is a multiple of
\* CHUNK_INTERVAL
C25_CheckpointEveryThird ==
    (Len(chunks) > 0 /\ chunks[1].pattern = "start") =>
        \A k \in 1 .. Len(chunks) - 1 :
            (chunks[k + 1].platforms[1].kind = "checkpoint") <=> (k % CHUNK_INTERVAL = 0)


\* ------------------------------------------------------------------------
\* Checkpoints of disposed chunks
\* ------------------------------------------------------------------------
\* C26: a step activates only a checkpoint whose chunk is live, never one
\* that was disposed with its chunk
C26_ActivatedIsLive ==
    ev.activated # 0 =>
        \A i \in 1 .. Len(checkpoints) :
            checkpoints[i].id = ev.activated => ~checkpoints[i].disposed


\* ------------------------------------------------------------------------
\* Reset
\* ------------------------------------------------------------------------
\* the identifiers of the checkpoints that live chunks hold
LiveCheckpointIds ==
    { Path[i].id : i \in { j \in 1 .. Len(Path) : Path[j].kind = "checkpoint" } }

\* C27: a reset leaves the world as build leaves a new one: the start chunk at
\* z = 0 and CHUNKS_AHEAD chunks after it, obstacles and checkpoints of these
\* chunks only, the counters as after a build, the start checkpoint active and
\* recorded as the respawn point
C27_ResetIsBuild ==
    ev.kind = "reset" =>
        /\ Len(chunks) = 1 + CHUNKS_AHEAD
        /\ chunks[1].pattern = "start" /\ chunks[1].startZ = 0
        /\ allObstacles = Path
        /\ \A i \in 1 .. Len(checkpoints) : checkpoints[i].id \in LiveCheckpointIds
        /\ generator.chunkCount = CHUNKS_AHEAD
        /\ generator.checkpointCount = Cardinality(LiveCheckpointIds)
        /\ activeCheckpoint = chunks[1].platforms[1].id
        /\ lastCheckpointPosition = getRespawnPosition(chunks[1].platforms[1])


\* ------------------------------------------------------------------------
\* The obstacle aggregate
\* ------------------------------------------------------------------------
\* C28: every obstacle of a live chunk is in allObstacles exactly once, and
\* allObstacles holds nothing else
C28_ObstaclesOfLiveChunks ==
    /\ \A i \in 1 .. Len(Path) :
           Cardinality({ j \in 1 .. Len(allObstacles) : allObstacles[j] = Path[i] }) = 1
    /\ \A j \in 1 .. Len(allObstacles) :
           \E i \in 1 .. Len(Path) : Path[i] = allObstacles[j]

\* an update has disposed the start chunk and left later chunks live
C28_Witness ==
    /\ ev.kind = "update"
    /\ Len(chunks) > 0
    /\ chunks[1].pattern # "start"
    /\ Len(allObstacles) > 0


\* ------------------------------------------------------------------------
\* Streaming
\* ------------------------------------------------------------------------
\* C29: one ChunkManager.update generates at most one chunk
C29_OneChunkPerUpdate ==
    ev.kind \in {"update", "frame"} => ev.generated <= 1

\* an update for a traveler far ahead of its last position: several trailing
\* chunks disposed, one chunk generated, and still less than CHUNKS_AHEAD
\* chunk lengths ahead
C29_Witness ==
    /\ ev.kind = "update"
    /\ ev.generated = 1
    /\ ev.disposed >= 2
    /\ NeedsChunk(Manager, player.position.z)

\* the distance from the traveler to the furthest generated coordinate
DistanceAhead == ToPos(currentZ) - player.position.z

\* C30: after an update, for a traveler that advanced by less than one chunk
\* length in every update since the world was built or reset, at least
\* CHUNKS_AHEAD - 1 chunk lengths are generated ahead
C30_StaysAhead ==
    (ev.kind \in {"update", "frame"} /\ ev.steady) =>
        DistanceAhead >= ToPos((CHUNKS_AHEAD - 1) * CHUNK_LENGTH)

\* a steady traveler who has left the start chunk far enough behind for it to
\* be disposed, in an update that generates a chunk
C30_Witness ==
    /\ ev.kind = "update"
    /\ ev.steady
    /\ ev.generated = 1
    /\ generator.chunkCount >= CHUNKS_AHEAD + 2
    /\ chunks[1].pattern # "start"

\* C31: a request with an unrecognized value (setState with a value that is
\* no game state, setMode or startPlaying with a value that is no game mode)
\* leaves currentState, previousState and currentMode as they are and emits
\* no event, in whatever state the request is made
C31_UnrecognizedRejected ==
    /\ setState(gameStateManager, "credits") = Quiet(gameStateManager)
    /\ setMode(gameStateManager, "arcade") = Quiet(gameStateManager)
    /\ startPlaying(gameStateManager, "arcade") = Quiet(gameStateManager)

\* C32: every change of the game state is one of MAIN_MENU -> PLAYING,
\* PLAYING -> PAUSED, PAUSED -> PLAYING, PAUSED -> MAIN_MENU
C32_TransitionsOnly ==
    [][gameStateManager'.currentState # gameStateManager.currentState
           => << gameStateManager.currentState, gameStateManager'.currentState >>
                  \in { << "main_menu", "playing" >>, << "playing", "paused" >>,
                        << "paused", "playing" >>, << "paused", "main_menu" >> }]_vars

\* C33: once the game has been paused, left for the main menu and started
\* again from there in the mode it was paused in, the player's position and
\* velocity, the live chunks, the active checkpoint and the distance travelled
\* are what they were when the game was paused
C33_ReentryKeepsGame ==
    pausedAt.stage = "reentered"
        => /\ player.position = pausedAt.position
           /\ player.velocity = pausedAt.velocity
           /\ chunks = pausedAt.chunks
           /\ activeCheckpoint = pausedAt.activeCheckpoint
           /\ totalDistance = pausedAt.totalDistance

\* C34: a frame that runs while the game state is not PLAYING or the pointer
\* is not locked leaves the player, the world (chunk window, active
\* checkpoint) and the death cooldown as they are
C34_IdleFrameKeepsGame ==
    [][(ticks' # ticks /\ (gameStateManager.currentState # "playing" \/ ~pointerLocked))
           => UNCHANGED << player, worldVars, deathCooldown >>]_vars

\* a frame has run over a paused game whose body is in motion
C34_Witness ==
    /\ ev.kind = "idle"
    /\ gameStateManager.currentState = "paused"
    /\ isLoaded
    /\ player.velocity.z # 0

\* C37: the world that a frame updates is the world of the current game
\* mode: the infinite world in parkour mode, the sandbox world otherwise
C37_WorldMatchesMode ==
    ev.worldUpdated # "none"
        => ev.worldUpdated = (IF gameStateManager.currentMode = "parkour"
                              THEN "infiniteWorld" ELSE "world")

\* C38: emit invokes the listeners that were registered when it was called,
\* each exactly once and in registration order
C38_EmitInvokesAll == globalEvents.invoked = globalEvents.registered

\* C35: no second jump in the air: a regular jump executes for a body in the
\* air only within COYOTE_TIME of the body leaving the ground without
\* jumping; after a jump or a wall jump none executes before the body is on a
\* surface again
C35_NoSecondJump == ev.airJump => ev.coyoteOpen

\* C39: the body goes from crouch height to full height only in a frame in
\* which the stand-up query is clear
C39_StandsWhereClear == ev.stoodUp => ev.standClear

\* C36: the chunk that holds the active checkpoint is live for as long as the
\* checkpoint is the active one, so that the respawn point is on a live
\* platform
C36_ActiveCheckpointLive ==
    (isLoaded /\ activeCheckpoint # 0) => activeCheckpoint \in LiveCheckpointIds

\* C40: after an update for a traveler that advanced by less than one chunk
\* length in every update since the world was built or reset, at most
\* CHUNKS_AHEAD + CHUNKS_BEHIND + 2 chunks are live
C40_ChunksBounded ==
    (ev.kind \in {"update", "frame"} /\ ev.steady) =>
        Len(chunks) <= CHUNKS_AHEAD + CHUNKS_BEHIND + 2

\* a steady traveler far down the path: more chunks generated than the
\* window holds, the trailing ones disposed
C40_Witness ==
    /\ ev.kind = "update"
    /\ ev.steady
    /\ ev.disposed >= 1
    /\ generator.chunkCount > CHUNKS_AHEAD + CHUNKS_BEHIND + 2
    /\ Len(chunks) > CHUNKS_AHEAD + CHUNKS_BEHIND
====
